---- MODULE Spec2Model ----
(***************************************************************************)
(* yttria-math: the spectral transform layer (fft / ifft / irfft over      *)
(* rustfft) and the frequency-sampling FIR designer firwin2.               *)
(*                                                                         *)
(* Numbers.  Real values that the code computes with +, -, *, / only are   *)
(* exact rationals <<n, d>> in lowest terms (d > 0); for the inputs used   *)
(* here (small integers, division by powers of two) f32/f64 arithmetic is  *)
(* exact, so the rational is the float.  Values that come out of exp/cos   *)
(* are not computed: a buffer holding them is a sequence of the sample     *)
(* token F64, a slot the code sets to the literal 0.0 holds ZERO, and a    *)
(* value computed from 0.0 / 0.0 is NAN.                                   *)
(* Sequences are 1-based: slot k of the source is element k + 1 here.      *)
(*                                                                         *)
(* Each entry point has its own specification over the shared variables:  *)
(* SpecFirwin (one call of firwin2, statement by statement), SpecGridSize  *)
(* (its prologue over large tap counts), SpecFft (chains of fft / ifft     *)
(* calls), SpecIrfft (one call of irfft, statement by statement),          *)
(* SpecInterp (one call of interp), SpecBits (unpackbits then packbits),   *)
(* SpecElementwise (add_into / multiply_into on the workers of the rayon   *)
(* pool), SpecZip (the four element-wise operations on buffers of          *)
(* differing lengths), SpecRoll (roll / fftshift and their in-place        *)
(* variants), SpecUnwrap (angle_unwrap and angle_unwrap_in_place),         *)
(* SpecPack (pack_into), SpecTrapz, SpecConvolve, SpecDiff (diff,          *)
(* diff_in_place, cumsum_in_place) and SpecArange (the loop of arange,     *)
(* SpecArangeFair with the fairness of a running loop); Spec is the union  *)
(* of all but SpecGridSize.  The variables of the entry points that are    *)
(* not running stay at their idle values.                                  *)
(***************************************************************************)
EXTENDS Integers, Sequences, FiniteSets, TLC

\* ------------------------------------------------------------------------
\* Bounds of the model
\* ------------------------------------------------------------------------
\* largest numtaps handed to firwin2
MaxTaps == 4
\* largest number of (freq, gain) breakpoints handed to firwin2
MaxBreaks == 3
\* 1.0 (Nyquist) is UnitsPerNyq machine epsilons on the model's frequency grid
UnitsPerNyq == 2
\* gains are drawn from 0..MaxGain
MaxGain == 1
\* real and imaginary parts of transform inputs are drawn from 0..MaxPart
MaxPart == 1
\* longest chain of fft / ifft calls applied to one buffer
MaxCalls == 2
\* usize is UsizeBits wide in the model (64 in the build; TLC integers are
\* 32-bit), so usize arithmetic is taken modulo 2^UsizeBits
UsizeBits == 16

\* ------------------------------------------------------------------------
\* Exact rationals
\* ------------------------------------------------------------------------
Abs(n) == IF n < 0 THEN -n ELSE n

RECURSIVE Pow2(_)
Pow2(k) == IF k = 0 THEN 1 ELSE 2 * Pow2(k - 1)

RECURSIVE Gcd(_, _)
Gcd(a, b) == IF b = 0 THEN a ELSE Gcd(b, a % b)

Norm(n, d) ==
    LET g == Gcd(Abs(n), Abs(d))
        s == IF d < 0 THEN -1 ELSE 1
    IN  <<(s * n) \div g, (s * d) \div g>>

R(n) == <<n, 1>>
RAdd(a, b) == Norm(a[1] * b[2] + b[1] * a[2], a[2] * b[2])
RSub(a, b) == Norm(a[1] * b[2] - b[1] * a[2], a[2] * b[2])
RMul(a, b) == Norm(a[1] * b[1], a[2] * b[2])
RDiv(a, b) == Norm(a[1] * b[2], a[2] * b[1])
RGe(a, b) == a[1] * b[2] >= b[1] * a[2]
RNeg(a) == <<-a[1], a[2]>>

\* ------------------------------------------------------------------------
\* num::Complex over exact reals
\* ------------------------------------------------------------------------
Cx(a, b) == [re |-> R(a), im |-> R(b)]
CAdd(z, w) == [re |-> RAdd(z.re, w.re), im |-> RAdd(z.im, w.im)]
CSub(z, w) == [re |-> RSub(z.re, w.re), im |-> RSub(z.im, w.im)]
CMul(z, w) == [re |-> RSub(RMul(z.re, w.re), RMul(z.im, w.im)),
               im |-> RAdd(RMul(z.re, w.im), RMul(z.im, w.re))]
CConj(z) == [re |-> z.re, im |-> RNeg(z.im)]

\* Complex / Complex as num computes it: both parts over the divisor's
\* squared norm
CDiv(z, w) ==
    LET norm_sqr == RAdd(RMul(w.re, w.re), RMul(w.im, w.im))
    IN  [re |-> RDiv(RAdd(RMul(z.re, w.re), RMul(z.im, w.im)), norm_sqr),
         im |-> RDiv(RSub(RMul(z.im, w.re), RMul(z.re, w.im)), norm_sqr)]

\* the sample tokens
F64 == "f64"
ZERO == "0.0"
NAN == "NaN"

\* ------------------------------------------------------------------------
\* State
\* ------------------------------------------------------------------------
VARIABLES
    fw_pc,          \* firwin2: the statement the call has reached
    numtaps,        \* firwin2 argument
    antisymmetric,  \* firwin2 argument
    gains,          \* firwin2 argument
    freqs,          \* firwin2 local copy of the freqs argument
    nfreqs,         \* firwin2 local
    ftype,          \* firwin2 local (0 until the match has run)
    x,              \* firwin2 local: the uniform grid
    fx,             \* firwin2 local: gains interpolated on the grid
    shift,          \* firwin2 local: the linear-phase term
    fx2,            \* firwin2 local: the half-spectrum
    out_full,       \* firwin2 local: the irfft result
    out,            \* firwin2 local: the coefficients returned
    fw_panic,       \* firwin2: the panic that ended the call ("" if none)
    overflow_checks,\* build profile: integer overflow panics (debug) or wraps
    signal,         \* transforms: the buffer the first call was made on
    buf,            \* transforms: the buffer returned by the latest call
    calls,          \* transforms: the calls made so far, oldest first
    ft_panic,       \* transforms: the panic that ended a call ("" if none)
    ir_pc,          \* irfft: the statement the call has reached
    half,           \* irfft: self, the half-spectrum
    hermitian,      \* irfft_into local: the working buffer
    ir_out,         \* irfft: the real buffer returned
    ir_scratch,     \* irfft: the scratch buffer
    ir_panic        \* irfft: the panic that ended the call ("" if none)

fw_vars == <<fw_pc, numtaps, antisymmetric, gains, freqs, nfreqs, ftype,
             x, fx, shift, fx2, out_full, out, fw_panic>>

ft_vars == <<signal, buf, calls, ft_panic>>

ir_vars == <<ir_pc, half, hermitian, ir_out, ir_scratch, ir_panic>>

\* a call of interp
VARIABLES
    ip_pc,          \* interp: the statement the call has reached
    ip_self,        \* interp: self, the queries
    ip_xp,          \* interp argument: the breakpoints' positions
    ip_fp,          \* interp argument: the breakpoints' values
    ip_out          \* interp: the buffer returned

ip_vars == <<ip_pc, ip_self, ip_xp, ip_fp, ip_out>>

IdleInterp ==
    /\ ip_pc = "idle"
    /\ ip_self = <<>>
    /\ ip_xp = <<>>
    /\ ip_fp = <<>>
    /\ ip_out = <<>>

\* unpackbits then packbits, as test_unpack_bits calls them
VARIABLES
    bt_pc,          \* bits: the statement reached
    data,           \* bits: the byte buffer unpackbits is called on
    bits,           \* bits: the buffer unpackbits returned
    recon_data      \* bits: the buffer packbits returned

bt_vars == <<bt_pc, data, bits, recon_data>>

IdleBits ==
    /\ bt_pc = "idle"
    /\ data = <<>>
    /\ bits = <<>>
    /\ recon_data = <<>>

\* add_into / multiply_into run by the workers of the rayon pool
VARIABLES
    ew_pc,          \* elementwise: the statement the call has reached
    ew_op,          \* elementwise: the method called
    ew_self,        \* elementwise: self
    ew_other,       \* elementwise argument: other
    ew_out,         \* elementwise argument: out
    pool,           \* rayon: the index ranges split off and not yet taken
    job,            \* rayon: per worker, the range it runs and its locals
    accesses        \* history: every read and write the workers have done

ew_vars == <<ew_pc, ew_op, ew_self, ew_other, ew_out, pool, job, accesses>>

IdleElementwise ==
    /\ ew_pc = "idle"
    /\ ew_op = ""
    /\ ew_self = <<>>
    /\ ew_other = <<>>
    /\ ew_out = <<>>
    /\ pool = {}
    /\ job = <<>>
    /\ accesses = {}

\* roll / fftshift and their in-place variants on the same buffer
VARIABLES
    rl_pc,          \* roll: the statement reached
    rl_x,           \* roll: the buffer as it was before the calls
    rl_shift,       \* roll argument: shift
    rl_out,         \* roll: the buffer the allocating variant returned
    rl_self         \* roll: the buffer the in-place variant worked on

rl_vars == <<rl_pc, rl_x, rl_shift, rl_out, rl_self>>

IdleRoll ==
    /\ rl_pc = "idle"
    /\ rl_x = <<>>
    /\ rl_shift = 0
    /\ rl_out = <<>>
    /\ rl_self = <<>>

\* angle_unwrap and angle_unwrap_in_place on the same buffer
VARIABLES
    uw_pc,          \* unwrap: the statement reached
    uw_x,           \* unwrap: the buffer as it was before the calls
    uw_period,      \* unwrap argument: Some(period)
    uw_out,         \* unwrap: the buffer angle_unwrap returned
    uw_self,        \* unwrap: the buffer angle_unwrap_in_place worked on
    uw_panic        \* unwrap: the panic that ended a call ("" if none)

uw_vars == <<uw_pc, uw_x, uw_period, uw_out, uw_self, uw_panic>>

IdleUnwrap ==
    /\ uw_pc = "idle"
    /\ uw_x = <<>>
    /\ uw_period = R(1)
    /\ uw_out = <<>>
    /\ uw_self = <<>>
    /\ uw_panic = ""

\* pack_into, convolve, trapz, diff and cumsum, each called on one buffer
VARIABLES
    vm_pc,          \* buffer calls: the statement reached
    vm_type,        \* buffer calls: the element type T of the call
    vm_self,        \* buffer calls: the buffer as it was before the calls
    vm_other,       \* buffer calls: the second argument
    vm_out,         \* buffer calls: what the allocating call returned
    vm_x,           \* buffer calls: the buffer the in-place calls worked on
    vm_panic        \* buffer calls: the panic that ended a call ("" if none)

vm_vars == <<vm_pc, vm_type, vm_self, vm_other, vm_out, vm_x, vm_panic>>

IdleVector ==
    /\ vm_pc = "idle"
    /\ vm_type = ""
    /\ vm_self = <<>>
    /\ vm_other = <<>>
    /\ vm_out = <<>>
    /\ vm_x = <<>>
    /\ vm_panic = ""

\* arange, one turn of its loop at a time
VARIABLES
    ag_pc,          \* arange: the statement reached
    ag_start,       \* arange argument
    ag_stop,        \* arange argument
    ag_step,        \* arange argument
    curr,           \* arange: the loop variable
    ag_out          \* arange: the vector being filled

ag_vars == <<ag_pc, ag_start, ag_stop, ag_step, curr, ag_out>>

IdleArange ==
    /\ ag_pc = "idle"
    /\ ag_start = 0
    /\ ag_stop = 0
    /\ ag_step = 0
    /\ curr = 0
    /\ ag_out = <<>>

vars ==
    <<fw_vars, overflow_checks, ft_vars,
      ir_vars, ip_vars, bt_vars, ew_vars,
      rl_vars,
      uw_vars,
      vm_vars,
      ag_vars>>

\* what the steps of one component leave alone
not_firwin ==
    <<overflow_checks, ft_vars, ir_vars,
      ip_vars, bt_vars, ew_vars, rl_vars,
      uw_vars,
      vm_vars,
      ag_vars>>
not_transforms ==
    <<fw_vars, overflow_checks, ir_vars,
      ip_vars, bt_vars, ew_vars,
      rl_vars,
      uw_vars,
      vm_vars,
      ag_vars>>
not_irfft ==
    <<fw_vars, overflow_checks, ft_vars,
      ip_vars, bt_vars, ew_vars, rl_vars,
      uw_vars,
      vm_vars,
      ag_vars>>
not_interp ==
    <<fw_vars, overflow_checks, ft_vars,
      ir_vars, bt_vars, ew_vars, rl_vars,
      uw_vars,
      vm_vars,
      ag_vars>>
not_bits ==
    <<fw_vars, overflow_checks, ft_vars,
      ir_vars, ip_vars, ew_vars, rl_vars,
      uw_vars,
      vm_vars,
      ag_vars>>
not_elementwise ==
    <<fw_vars, overflow_checks, ft_vars, ir_vars, ip_vars, bt_vars,
      rl_vars,
      uw_vars,
      vm_vars,
      ag_vars>>
not_roll ==
    <<fw_vars, overflow_checks, ft_vars, ir_vars,
      ip_vars, bt_vars, ew_vars,
      uw_vars,
      vm_vars,
      ag_vars>>
not_unwrap ==
    <<fw_vars, overflow_checks, ft_vars, ir_vars,
      ip_vars, bt_vars, ew_vars, rl_vars,
      vm_vars,
      ag_vars>>
not_vector ==
    <<fw_vars, overflow_checks, ft_vars, ir_vars,
      ip_vars, bt_vars, ew_vars, rl_vars,
      uw_vars, ag_vars>>
not_arange ==
    <<fw_vars, overflow_checks, ft_vars, ir_vars,
      ip_vars, bt_vars, ew_vars, rl_vars,
      uw_vars, vm_vars>>

\* ------------------------------------------------------------------------
\* The transform engine (rustfft) as fft.rs uses it
\* ------------------------------------------------------------------------
\* the lengths whose twiddle factors are 1, -1, i, -i: the engine's
\* butterflies are exact on them
ExactLens == {1, 2, 4}

\* rustfft Butterfly2: the 2-point transform, the same in both directions
Butterfly2(a, b) == <<CAdd(a, b), CSub(a, b)>>

\* rustfft twiddles::rotate_90: times -i forward, times i inverse
Rotate90(v, dir) ==
    IF dir = "forward" THEN [re |-> v.im, im |-> RNeg(v.re)]
    ELSE [re |-> RNeg(v.im), im |-> v.re]

\* rustfft Butterfly4: column 2-point transforms, the one twiddle, row
\* 2-point transforms, transposed store
Butterfly4(c, dir) ==
    LET col02 == Butterfly2(c[1], c[3])
        col13 == Butterfly2(c[2], c[4])
        value3 == Rotate90(col13[2], dir)
        row01 == Butterfly2(col02[1], col13[1])
        row23 == Butterfly2(col02[2], value3)
    IN  <<row01[1], row23[1], row01[2], row23[2]>>

\* the plan for one chunk of length 1, 2 or 4
TransformChunk(c, dir) ==
    IF Len(c) = 1 THEN c
    ELSE IF Len(c) = 2 THEN Butterfly2(c[1], c[2])
    ELSE Butterfly4(c, dir)

\* the butterflies need no scratch
InplaceScratchLen(len) == 0

InsufficientBuffer == "Provided FFT buffer was too small"
InsufficientScratch == "Not enough scratch space was provided"
NotMultiple == "Input FFT buffer must be a multiple of FFT length"

\* Fft::process_with_scratch of a plan of length len: a plan of length 0
\* returns at once; otherwise the buffer is transformed in place chunk by
\* chunk, and must be a whole number of chunks
\* the transformed chunks, stored back in place
Flatten(chunks, n, len) ==
    [i \in 1..n |-> chunks[(i - 1) \div len][((i - 1) % len) + 1]]

ProcessWithScratch(len, dir, buffer, scratch) ==
    IF len = 0 THEN [panic |-> "", buf |-> buffer]
    ELSE IF Len(scratch) < InplaceScratchLen(len)
         THEN [panic |-> InsufficientScratch, buf |-> buffer]
    ELSE IF Len(buffer) < len
         THEN [panic |-> InsufficientBuffer, buf |-> buffer]
    ELSE IF Len(buffer) % len # 0
         THEN [panic |-> NotMultiple, buf |-> buffer]
    ELSE [panic |-> "",
          buf |-> Flatten([c \in 0..((Len(buffer) \div len) - 1) |->
                           TransformChunk(SubSeq(buffer, c * len + 1,
                                                 c * len + len), dir)],
                          Len(buffer), len)]

\* ------------------------------------------------------------------------
\* fft.rs: fft, ifft
\* ------------------------------------------------------------------------
SliceEnd == "range end index out of range for slice"

\* values that uninitialised memory may hold; no transform input has them
Garbage == {Cx(7, -9), Cx(-5, 3)}

\* Vec::with_capacity(n) followed by set_len(n)
Uninit(n, g) == [i \in 1..n |-> g]

\* out[0..self.len()].clone_from_slice(self)
CloneIntoPrefix(dst, src) ==
    [i \in 1..Len(dst) |-> IF i <= Len(src) THEN src[i] ELSE dst[i]]

\* divide_const_inplace leaving the buffer unscaled
DivideConstInplace_NoScaling(b, divisor) == b

\* arithmetic.rs divide_const_inplace
DivideConstInplace(b, divisor) == [i \in 1..Len(b) |-> CDiv(b[i], divisor)]

\* T::from_usize(n) as a Complex
FromUsize(n) == Cx(n, 0)

\* fft_into opening with an assertion that the input is not empty
FftInto_RejectsEmpty(self, o, scratch) ==
    IF Len(self) = 0 THEN [panic |-> "assertion failed", buf |-> o]
    ELSE IF Len(self) > Len(o) THEN [panic |-> SliceEnd, buf |-> o]
    ELSE LET p == ProcessWithScratch(Len(self), "forward",
                                     CloneIntoPrefix(o, self), scratch)
         IN  IF p.panic # "" THEN p
             ELSE [panic |-> "",
                   buf |-> DivideConstInplace(p.buf, FromUsize(Len(self)))]

\* fft_into, lines 21-32
FftInto(self, o, scratch) ==
    IF Len(self) > Len(o) THEN [panic |-> SliceEnd, buf |-> o]
    ELSE LET p == ProcessWithScratch(Len(self), "forward",
                                     CloneIntoPrefix(o, self), scratch)
         IN  IF p.panic # "" THEN p
             ELSE [panic |-> "",
                   buf |-> DivideConstInplace(p.buf, FromUsize(Len(self)))]

\* fft, lines 34-42
Fft(self, g) == FftInto(self, Uninit(Len(self), g), Uninit(Len(self), g))

\* ifft_into planning a forward transform
IfftInto_ForwardPlan(self, o, scratch) == FftInto(self, o, scratch)

\* ifft_into, lines 44-55
IfftInto(self, o, scratch) ==
    IF Len(self) > Len(o) THEN [panic |-> SliceEnd, buf |-> o]
    ELSE LET p == ProcessWithScratch(Len(self), "inverse",
                                     CloneIntoPrefix(o, self), scratch)
         IN  IF p.panic # "" THEN p
             ELSE [panic |-> "",
                   buf |-> DivideConstInplace(p.buf, FromUsize(Len(self)))]

\* ifft, lines 57-65
Ifft(self, g) == IfftInto(self, Uninit(Len(self), g), Uninit(Len(self), g))

\* ------------------------------------------------------------------------
\* fft.rs: irfft
\* ------------------------------------------------------------------------
UsizeMod == Pow2(UsizeBits)
IsizeMax == (UsizeMod \div 2) - 1
WrapUsize(n) == n % UsizeMod

\* size_of::<T>() for the f32 buffers of the tests; Complex<T> is twice that
SizeOfReal == 4
SizeOfComplex == 2 * SizeOfReal

SubOverflow == "attempt to subtract with overflow"
MulOverflow == "attempt to multiply with overflow"
CapacityOverflow == "capacity overflow"

\* OutLen computed as 2 * (len - 2)
OutLen_OneBinShort(len, checks) ==
    LET d == len - 2
        p == 2 * WrapUsize(d)
    IN  IF checks /\ d < 0 THEN [panic |-> SubOverflow, val |-> 0]
        ELSE IF checks /\ p >= UsizeMod THEN [panic |-> MulOverflow, val |-> 0]
        ELSE [panic |-> "", val |-> WrapUsize(p)]

\* 2 * (self.len() - 1) on usize, lines 68 and 98
OutLen(len, checks) ==
    LET d == len - 1
        p == 2 * WrapUsize(d)
    IN  IF checks /\ d < 0 THEN [panic |-> SubOverflow, val |-> 0]
        ELSE IF checks /\ p >= UsizeMod THEN [panic |-> MulOverflow, val |-> 0]
        ELSE [panic |-> "", val |-> WrapUsize(p)]

\* HermitianLen computed as 2 * (len - 1) - 1
HermitianLen_TwoShort(len, checks) ==
    LET o == OutLen(len, checks)
        d == o.val - 1
    IN  IF o.panic # "" THEN o
        ELSE IF checks /\ d < 0 THEN [panic |-> SubOverflow, val |-> 0]
        ELSE [panic |-> "", val |-> WrapUsize(d)]

\* 2 * self.len() - 1 on usize, lines 69-70
HermitianLen(len, checks) ==
    LET p == 2 * len
        d == WrapUsize(p) - 1
    IN  IF checks /\ p >= UsizeMod THEN [panic |-> MulOverflow, val |-> 0]
        ELSE IF checks /\ d < 0 THEN [panic |-> SubOverflow, val |-> 0]
        ELSE [panic |-> "", val |-> WrapUsize(d)]

\* Vec::with_capacity(n) for elements of size bytes: the panic, or ""
WithCapacity(n, size) == IF n * size > IsizeMax THEN CapacityOverflow ELSE ""

\* conj_inplace leaving every element as it is
ConjInplace_Identity(b) == b

\* complex.rs conj_inplace
ConjInplace(b) == [i \in 1..Len(b) |-> CConj(b[i])]

\* slice::reverse
Reverse(b) == [i \in 1..Len(b) |-> b[Len(b) + 1 - i]]

\* Vec::resize(n, value)
Resize(b, n, value) == [i \in 1..n |-> IF i <= Len(b) THEN b[i] ELSE value]

\* the divisor being the length of the working buffer
ScaleDivisor_BufferLen(out_len, b) == FromUsize(Len(b))

\* the divisor of lines 89-92
ScaleDivisor(out_len, b) == FromUsize(out_len)

\* complex.rs real
Real(b) == [i \in 1..Len(b) |-> b[i].re]

\* ------------------------------------------------------------------------
\* firwin2
\* ------------------------------------------------------------------------
Eps == <<1, UnitsPerNyq>>

\* non-decreasing sequences of length n over the epsilon grid in [0, 1]
RECURSIVE NonDecreasing(_, _)
NonDecreasing(n, lo) ==
    IF n = 0 THEN {<<>>}
    ELSE UNION {{<<Norm(k, UnitsPerNyq)>> \o t : t \in NonDecreasing(n - 1, k)} :
                k \in lo..UnitsPerNyq}

RECURSIVE SeqsOver(_, _)
SeqsOver(S, n) ==
    IF n = 0 THEN {<<>>}
    ELSE UNION {{<<v>> \o t : t \in SeqsOver(S, n - 1)} : v \in S}

\* f32::MANTISSA_DIGITS: the significand of the f32 that line 64 casts to
F32MantissaDigits == 24

RECURSIVE FloorLog2From(_, _)
FloorLog2From(n, k) == IF Pow2(k + 1) > n THEN k ELSE FloorLog2From(n, k + 1)

\* numtaps as f32: the nearest value with F32MantissaDigits significant bits,
\* ties to the even significand
AsF32(n) ==
    IF n < Pow2(F32MantissaDigits) THEN n
    ELSE LET ulp == Pow2(FloorLog2From(n, 0) - F32MantissaDigits + 1)
             lo == (n \div ulp) * ulp
             hi == lo + ulp
         IN  IF n - lo < hi - n THEN lo
             ELSE IF n - lo > hi - n THEN hi
             ELSE IF (lo \div ulp) % 2 = 0 THEN lo
             ELSE hi

\* f32::log2(v).ceil() as u32, for v holding an integer: the cast of -inf
\* (v = 0) saturates to 0
RECURSIVE CeilLog2From(_, _)
CeilLog2From(n, k) == IF Pow2(k) >= n THEN k ELSE CeilLog2From(n, k + 1)

CeilLog2(n) == CeilLog2From(n, 0)

\* line 64
\* Nfreqs without the extra grid point
Nfreqs_NoExtraPoint(n) == Pow2(CeilLog2(AsF32(n)))

Nfreqs(n) == 1 + Pow2(CeilLog2(AsF32(n)))

\* the loop of lines 74-79, from source index i on
RECURSIVE PerturbFrom(_, _)
PerturbFrom(f, i) ==
    IF i + 1 >= Len(f) THEN f
    ELSE IF f[i + 1] = f[i + 2]
         THEN PerturbFrom([f EXCEPT ![i + 1] = RSub(f[i + 1], Eps),
                                    ![i + 2] = RAdd(f[i + 2], Eps)], i + 1)
         ELSE PerturbFrom(f, i + 1)

Perturb(f) == PerturbFrom(f, 0)

IdleFirwin ==
    /\ fw_pc = "idle"
    /\ numtaps = 0
    /\ antisymmetric = FALSE
    /\ freqs = <<>>
    /\ gains = <<>>
    /\ nfreqs = 0
    /\ ftype = 0
    /\ x = <<>>
    /\ fx = <<>>
    /\ shift = <<>>
    /\ fx2 = <<>>
    /\ out_full = <<>>
    /\ out = <<>>
    /\ fw_panic = ""

IdleTransforms ==
    /\ signal = <<>>
    /\ buf = <<>>
    /\ calls = <<>>
    /\ ft_panic = "idle"

IdleIrfft ==
    /\ ir_pc = "idle"
    /\ half = <<>>
    /\ hermitian = <<>>
    /\ ir_out = <<>>
    /\ ir_scratch = <<>>
    /\ ir_panic = ""

InitFirwin ==
    /\ IdleTransforms
    /\ IdleIrfft
    /\ IdleInterp
    /\ IdleBits
    /\ IdleElementwise
    /\ IdleRoll
    /\ IdleUnwrap
    /\ IdleVector
    /\ IdleArange
    /\ overflow_checks \in BOOLEAN
    /\ fw_pc = "start"
    /\ numtaps \in 0..MaxTaps
    /\ antisymmetric \in BOOLEAN
    /\ \E n \in 2..MaxBreaks :
          /\ freqs \in NonDecreasing(n, 0)
          /\ gains \in SeqsOver({R(g) : g \in 0..MaxGain}, n)
    /\ nfreqs = 0
    /\ ftype = 0
    /\ x = <<>>
    /\ fx = <<>>
    /\ shift = <<>>
    /\ fx2 = <<>>
    /\ out_full = <<>>
    /\ out = <<>>
    /\ fw_panic = ""

\* lines 61-79
Prologue ==
    /\ fw_pc = "start"
    /\ nfreqs' = Nfreqs(numtaps)
    /\ freqs' = Perturb(freqs)
    /\ fw_pc' = "perturbed"
    /\ UNCHANGED <<numtaps, antisymmetric, gains, ftype, x, fx, shift, fx2,
                   out_full, out, fw_panic>>
    /\ UNCHANGED not_firwin

\* the match of lines 81-104: the filter type, or the assertion that fails
TypeII == "A Type II filter must have zero gain at the Nyquist frequency."
TypeIII == "A Type III filter must have zero gain at zero and Nyquist frequencies."
TypeIV == "A Type IV filter must have zero gain at zero frequency."

\* FilterType with the Type II assertion testing the gain at zero frequency
FilterType_TypeIIChecksFirst(anti, n, g) ==
    LET even == (n % 2 = 0)
        first == g[1]
        last == g[Len(g)]
    IN  IF ~anti /\ ~even THEN [ftype |-> 1, panic |-> ""]
        ELSE IF ~anti /\ even
             THEN IF first = R(0) THEN [ftype |-> 2, panic |-> ""]
                  ELSE [ftype |-> 0, panic |-> TypeII]
        ELSE IF anti /\ ~even
             THEN IF first = R(0) /\ last = R(0) THEN [ftype |-> 3, panic |-> ""]
                  ELSE [ftype |-> 0, panic |-> TypeIII]
        ELSE IF first = R(0) THEN [ftype |-> 4, panic |-> ""]
             ELSE [ftype |-> 0, panic |-> TypeIV]

\* FilterType with the Type III assertion testing only the gain at zero
FilterType_TypeIIIChecksFirstOnly(anti, n, g) ==
    LET even == (n % 2 = 0)
        first == g[1]
        last == g[Len(g)]
    IN  IF ~anti /\ ~even THEN [ftype |-> 1, panic |-> ""]
        ELSE IF ~anti /\ even
             THEN IF last = R(0) THEN [ftype |-> 2, panic |-> ""]
                  ELSE [ftype |-> 0, panic |-> TypeII]
        ELSE IF anti /\ ~even
             THEN IF first = R(0) THEN [ftype |-> 3, panic |-> ""]
                  ELSE [ftype |-> 0, panic |-> TypeIII]
        ELSE IF first = R(0) THEN [ftype |-> 4, panic |-> ""]
             ELSE [ftype |-> 0, panic |-> TypeIV]

FilterType(anti, n, g) ==
    LET even == (n % 2 = 0)
        first == g[1]
        last == g[Len(g)]
    IN  IF ~anti /\ ~even THEN [ftype |-> 1, panic |-> ""]
        ELSE IF ~anti /\ even
             THEN IF last = R(0) THEN [ftype |-> 2, panic |-> ""]
                  ELSE [ftype |-> 0, panic |-> TypeII]
        ELSE IF anti /\ ~even
             THEN IF first = R(0) /\ last = R(0) THEN [ftype |-> 3, panic |-> ""]
                  ELSE [ftype |-> 0, panic |-> TypeIII]
        ELSE IF first = R(0) THEN [ftype |-> 4, panic |-> ""]
             ELSE [ftype |-> 0, panic |-> TypeIV]

Classify ==
    /\ fw_pc = "perturbed"
    /\ LET m == FilterType(antisymmetric, numtaps, gains)
       IN  /\ ftype' = m.ftype
           /\ fw_panic' = m.panic
           /\ fw_pc' = IF m.panic = "" THEN "classified" ELSE "failed"
    /\ UNCHANGED <<numtaps, antisymmetric, gains, freqs, nfreqs, x, fx, shift,
                   fx2, out_full, out>>
    /\ UNCHANGED not_firwin

\* utils.rs linspace with endpoint = true (size >= 2)
Linspace(start, stop, size) ==
    LET delta == RDiv(RSub(stop, start), R(size - 1))
    IN  [i \in 1..size |-> RAdd(start, RMul(delta, R(i - 1)))]

\* line 106
Grid ==
    /\ fw_pc = "classified"
    /\ x' = Linspace(R(0), R(1), nfreqs)
    /\ fw_pc' = "grid"
    /\ UNCHANGED <<numtaps, antisymmetric, gains, freqs, nfreqs, ftype, fx,
                   shift, fx2, out_full, out, fw_panic>>
    /\ UNCHANGED not_firwin

\* position of the last breakpoint >= own (rposition)
Position_LastAtOrAbove(xp, own) ==
    IF \E b \in 1..Len(xp) : RGe(xp[b], own)
    THEN (CHOOSE b \in 1..Len(xp) :
              /\ RGe(xp[b], own)
              /\ \A c \in (b + 1)..Len(xp) : ~RGe(xp[c], own)) - 1
    ELSE Len(xp)

\* position falling back to the first index, unwrap_or(0)
Position_NoneIsFirstIndex(xp, own) ==
    IF \E b \in 1..Len(xp) : RGe(xp[b], own)
    THEN (CHOOSE b \in 1..Len(xp) :
              /\ RGe(xp[b], own)
              /\ \A c \in 1..(b - 1) : ~RGe(xp[c], own)) - 1
    ELSE 0

\* arithmetic.rs interp_into, one query: bin is the 0-based position of the
\* first breakpoint >= own, or xp.len()
Position(xp, own) ==
    IF \E b \in 1..Len(xp) : RGe(xp[b], own)
    THEN (CHOOSE b \in 1..Len(xp) :
              /\ RGe(xp[b], own)
              /\ \A c \in 1..(b - 1) : ~RGe(xp[c], own)) - 1
    ELSE Len(xp)

\* the interior branch measuring the offset from the upper breakpoint
InterpOne_OffsetFromUpper(own, xp, fp) ==
    LET bin == Position(xp, own)
    IN  IF bin = 0 THEN fp[1]
        ELSE IF bin = Len(xp) THEN fp[Len(fp)]
        ELSE LET slope == RDiv(RSub(fp[bin + 1], fp[bin]),
                               RSub(xp[bin + 1], xp[bin]))
             IN  RAdd(fp[bin], RMul(slope, RSub(own, xp[bin + 1])))

\* interp_into, lines 428-436, for one query
InterpOne(own, xp, fp) ==
    LET bin == Position(xp, own)
    IN  IF bin = 0 THEN fp[1]
        ELSE IF bin = Len(xp) THEN fp[Len(fp)]
        ELSE LET slope == RDiv(RSub(fp[bin + 1], fp[bin]),
                               RSub(xp[bin + 1], xp[bin]))
             IN  RAdd(fp[bin], RMul(slope, RSub(own, xp[bin])))

Interp(self, xp, fp) == [i \in 1..Len(self) |-> InterpOne(self[i], xp, fp)]

\* line 107
Interpolate ==
    /\ fw_pc = "grid"
    /\ fx' = Interp(x, freqs, gains)
    /\ fw_pc' = "interp"
    /\ UNCHANGED <<numtaps, antisymmetric, gains, freqs, nfreqs, ftype, x,
                   shift, fx2, out_full, out, fw_panic>>
    /\ UNCHANGED not_firwin

\* lines 109-122: exp of a purely imaginary angle per grid point, times i
\* for antisymmetric filters; a float buffer as long as x
PhaseShift ==
    /\ fw_pc = "interp"
    /\ shift' = [i \in 1..Len(x) |-> F64]
    /\ fw_pc' = "shift"
    /\ UNCHANGED <<numtaps, antisymmetric, gains, freqs, nfreqs, ftype, x, fx,
                   fx2, out_full, out, fw_panic>>
    /\ UNCHANGED not_firwin

\* lines 124-128: multiply allocates self.len() slots and writes the zipped
\* prefix
HalfSpectrum ==
    /\ fw_pc = "shift"
    /\ Len(shift) >= Len(fx)
    /\ fx2' = [i \in 1..Len(fx) |-> F64]
    /\ fw_pc' = "spectrum"
    /\ UNCHANGED <<numtaps, antisymmetric, gains, freqs, nfreqs, ftype, x, fx,
                   shift, out_full, out, fw_panic>>
    /\ UNCHANGED not_firwin

\* line 130: irfft of a half-spectrum of length >= 2 returns
\* 2 * (len - 1) samples
InverseTransform ==
    /\ fw_pc = "spectrum"
    /\ out_full' = [i \in 1..OutLen(Len(fx2), overflow_checks).val |-> F64]
    /\ fw_pc' = "irfft"
    /\ UNCHANGED <<numtaps, antisymmetric, gains, freqs, nfreqs, ftype, x, fx,
                   shift, fx2, out, fw_panic>>
    /\ UNCHANGED not_firwin

\* CopyPrefix keeping the whole transform result
CopyPrefix_NoTruncation(full, n) == full

\* lines 132-135: out is full[0..n]
CopyPrefix(full, n) == SubSeq(full, 1, n)

\* lines 132-135: the slice out_full[0..numtaps] panics past the end
Truncate ==
    /\ fw_pc = "irfft"
    /\ IF numtaps <= Len(out_full)
       THEN /\ out' = CopyPrefix(out_full, numtaps)
            /\ fw_pc' = "truncated"
            /\ fw_panic' = fw_panic
       ELSE /\ out' = out
            /\ fw_pc' = "failed"
            /\ fw_panic' = "range end index out of range for slice"
    /\ UNCHANGED <<numtaps, antisymmetric, gains, freqs, nfreqs, ftype, x, fx,
                   shift, fx2, out_full>>
    /\ UNCHANGED not_firwin

\* cosine_sum.rs cos_sum, lines 8-10: the angle of sample i (0-based) is
\* 2*pi*i / (n - 1), both operands cast to f64 before the division; a zero
\* over a zero is NaN and so is its cosine
CosSumSample(i, n) ==
    IF n - 1 = 0 /\ i = 0 THEN NAN ELSE F64

\* cosine_sum.rs hamming: n samples, each from cos_sum
Hamming(n) == [i \in 1..n |-> CosSumSample(i - 1, n)]

\* the product of two f64 samples: NaN whenever an operand is NaN
Times(a, b) == IF a = NAN \/ b = NAN THEN NAN ELSE F64

\* multiply_inplace: the zipped prefix of self is overwritten by a product
MultiplyInplace(self, other) ==
    [i \in 1..Len(self) |->
        IF i <= Len(other) THEN Times(self[i], other[i]) ELSE self[i]]

\* lines 137-138
Window ==
    /\ fw_pc = "truncated"
    /\ out' = MultiplyInplace(out, Hamming(Len(out)))
    /\ fw_pc' = "windowed"
    /\ UNCHANGED <<numtaps, antisymmetric, gains, freqs, nfreqs, ftype, x, fx,
                   shift, fx2, out_full, fw_panic>>
    /\ UNCHANGED not_firwin

\* lines 140-143: the slot (0-based) that the Type III fixup zeroes
CenterIndex(len) == len \div 2

\* CenterTap zeroing the first tap
CenterTap_FirstSlot(o, t) ==
    IF t = 3 THEN [o EXCEPT ![1] = ZERO] ELSE o

CenterTap(o, t) ==
    IF t = 3 THEN [o EXCEPT ![CenterIndex(Len(o)) + 1] = ZERO] ELSE o

\* lines 140-145
Finish ==
    /\ fw_pc = "windowed"
    /\ out' = CenterTap(out, ftype)
    /\ fw_pc' = "done"
    /\ UNCHANGED <<numtaps, antisymmetric, gains, freqs, nfreqs, ftype, x, fx,
                   shift, fx2, out_full, fw_panic>>
    /\ UNCHANGED not_firwin

NextFirwin ==
    \/ Prologue
    \/ Classify
    \/ Grid
    \/ Interpolate
    \/ PhaseShift
    \/ HalfSpectrum
    \/ InverseTransform
    \/ Truncate
    \/ Window
    \/ Finish

SpecFirwin == InitFirwin /\ [][NextFirwin]_vars

\* ------------------------------------------------------------------------
\* The prologue of firwin2 over the whole range of numtaps
\* ------------------------------------------------------------------------
\* tap counts around the powers of two: the small ones one by one, then
\* 2^k - 1, 2^k, 2^k + 1 where the f32 logarithm separates them from k, and
\* around the end of the integers an f32 holds exactly
TapCounts ==
    (0..MaxTaps)
    \cup {Pow2(k) + d : k \in 3..19, d \in {-1, 0, 1}}
    \cup {Pow2(F32MantissaDigits) + d : d \in {-1, 0, 1}}

InitGridSize ==
    /\ IdleTransforms
    /\ IdleIrfft
    /\ IdleInterp
    /\ IdleBits
    /\ IdleElementwise
    /\ IdleRoll
    /\ IdleUnwrap
    /\ IdleVector
    /\ IdleArange
    /\ overflow_checks \in BOOLEAN
    /\ fw_pc = "start"
    /\ numtaps \in TapCounts
    /\ antisymmetric \in BOOLEAN
    /\ freqs \in NonDecreasing(2, 0)
    /\ gains = <<R(0), R(0)>>
    /\ nfreqs = 0
    /\ ftype = 0
    /\ x = <<>>
    /\ fx = <<>>
    /\ shift = <<>>
    /\ fx2 = <<>>
    /\ out_full = <<>>
    /\ out = <<>>
    /\ fw_panic = ""

\* the call up to line 79
SpecGridSize == InitGridSize /\ [][Prologue]_vars

\* ------------------------------------------------------------------------
\* Calls of fft and ifft
\* ------------------------------------------------------------------------
Parts == {[re |-> R(a), im |-> R(b)] : a \in 0..MaxPart, b \in 0..MaxPart}

\* fft and ifft do no usize arithmetic that can overflow: one build profile
InitFft ==
    /\ IdleFirwin
    /\ IdleIrfft
    /\ IdleInterp
    /\ IdleBits
    /\ IdleElementwise
    /\ IdleRoll
    /\ IdleUnwrap
    /\ IdleVector
    /\ IdleArange
    /\ overflow_checks = TRUE
    /\ \E n \in ExactLens \cup {0} : signal \in SeqsOver(Parts, n)
    /\ buf = signal
    /\ calls = <<>>
    /\ ft_panic = ""

\* buf = buf.fft()
CallFft ==
    /\ ft_panic = ""
    /\ Len(calls) < MaxCalls
    /\ \E g \in Garbage : \E r \in {Fft(buf, g)} :
              /\ buf' = IF r.panic = "" THEN r.buf ELSE buf
              /\ ft_panic' = r.panic
    /\ calls' = Append(calls, "fft")
    /\ UNCHANGED <<signal, not_transforms>>

\* buf = buf.ifft()
CallIfft ==
    /\ ft_panic = ""
    /\ Len(calls) < MaxCalls
    /\ \E g \in Garbage : \E r \in {Ifft(buf, g)} :
              /\ buf' = IF r.panic = "" THEN r.buf ELSE buf
              /\ ft_panic' = r.panic
    /\ calls' = Append(calls, "ifft")
    /\ UNCHANGED <<signal, not_transforms>>

NextFft ==
    \/ CallFft
    \/ CallIfft

SpecFft == InitFft /\ [][NextFft]_vars

\* ------------------------------------------------------------------------
\* A call of irfft
\* ------------------------------------------------------------------------
HalfLens == {0, 1, 2, 3}

InitIrfft ==
    /\ IdleFirwin
    /\ IdleTransforms
    /\ IdleInterp
    /\ IdleBits
    /\ IdleElementwise
    /\ IdleRoll
    /\ IdleUnwrap
    /\ IdleVector
    /\ IdleArange
    /\ overflow_checks \in BOOLEAN
    /\ ir_pc = "call"
    /\ \E m \in HalfLens : half \in SeqsOver(Parts, m)
    /\ hermitian = <<>>
    /\ ir_out = <<>>
    /\ ir_scratch = <<>>
    /\ ir_panic = ""

IrfftPanics(msg) ==
    /\ ir_pc' = "failed"
    /\ ir_panic' = msg
    /\ UNCHANGED <<half, hermitian, ir_out, ir_scratch>>

\* irfft, lines 98-102: out and scratch, out_len slots each, uninitialised
IrfftAlloc ==
    /\ ir_pc = "call"
    /\ \E n \in {OutLen(Len(half), overflow_checks)} :
          IF n.panic # "" THEN IrfftPanics(n.panic)
          ELSE IF WithCapacity(n.val, SizeOfReal) # ""
               THEN IrfftPanics(WithCapacity(n.val, SizeOfReal))
          ELSE IF WithCapacity(n.val, SizeOfComplex) # ""
               THEN IrfftPanics(WithCapacity(n.val, SizeOfComplex))
          ELSE \E g \in Garbage :
                  /\ ir_out' = Uninit(n.val, g.re)
                  /\ ir_scratch' = Uninit(n.val, g)
                  /\ ir_pc' = "into"
                  /\ UNCHANGED <<half, hermitian, ir_panic>>
    /\ UNCHANGED not_irfft

\* irfft_into, lines 68-70: the working buffer, uninitialised
HermitianAlloc ==
    /\ ir_pc = "into"
    /\ \E n \in {HermitianLen(Len(half), overflow_checks)} :
          IF n.panic # "" THEN IrfftPanics(n.panic)
          ELSE IF WithCapacity(n.val, SizeOfComplex) # ""
               THEN IrfftPanics(WithCapacity(n.val, SizeOfComplex))
          ELSE /\ hermitian' \in SeqsOver(Garbage, n.val)
               /\ ir_pc' = "allocated"
               /\ UNCHANGED <<half, ir_out, ir_scratch, ir_panic>>
    /\ UNCHANGED not_irfft

\* line 72
CopyHalf ==
    /\ ir_pc = "allocated"
    /\ IF Len(half) > Len(hermitian) THEN IrfftPanics(SliceEnd)
       ELSE /\ hermitian' = CloneIntoPrefix(hermitian, half)
            /\ ir_pc' = "copied"
            /\ UNCHANGED <<half, ir_out, ir_scratch, ir_panic>>
    /\ UNCHANGED not_irfft

\* line 73
Conjugate ==
    /\ ir_pc = "copied"
    /\ hermitian' = ConjInplace(hermitian)
    /\ ir_pc' = "conjugated"
    /\ UNCHANGED <<half, ir_out, ir_scratch, ir_panic, not_irfft>>

\* line 74
Mirror ==
    /\ ir_pc = "conjugated"
    /\ hermitian' = Reverse(hermitian)
    /\ ir_pc' = "reversed"
    /\ UNCHANGED <<half, ir_out, ir_scratch, ir_panic, not_irfft>>

\* line 75
Recopy ==
    /\ ir_pc = "reversed"
    /\ IF Len(half) > Len(hermitian) THEN IrfftPanics(SliceEnd)
       ELSE /\ hermitian' = CloneIntoPrefix(hermitian, half)
            /\ ir_pc' = "recopied"
            /\ UNCHANGED <<half, ir_out, ir_scratch, ir_panic>>
    /\ UNCHANGED not_irfft

\* lines 77-83
ZeroPad ==
    /\ ir_pc = "recopied"
    /\ hermitian' = Resize(hermitian,
                           2 * OutLen(Len(half), overflow_checks).val,
                           Cx(0, 0))
    /\ ir_pc' = "resized"
    /\ UNCHANGED <<half, ir_out, ir_scratch, ir_panic, not_irfft>>

\* lines 85-88: an inverse plan of length out.len() over the working buffer
Process ==
    /\ ir_pc = "resized"
    /\ \E p \in {ProcessWithScratch(Len(ir_out), "inverse", hermitian,
                                   ir_scratch)} :
          IF p.panic # "" THEN IrfftPanics(p.panic)
          ELSE /\ hermitian' = p.buf
               /\ ir_pc' = "processed"
               /\ UNCHANGED <<half, ir_out, ir_scratch, ir_panic>>
    /\ UNCHANGED not_irfft

\* lines 89-92
Scale ==
    /\ ir_pc = "processed"
    /\ hermitian' = DivideConstInplace(
                        hermitian,
                        ScaleDivisor(OutLen(Len(half), overflow_checks).val,
                                     hermitian))
    /\ ir_pc' = "scaled"
    /\ UNCHANGED <<half, ir_out, ir_scratch, ir_panic, not_irfft>>

\* line 94, and the return of line 105
TakeReal ==
    /\ ir_pc = "scaled"
    /\ IF Len(ir_out) > Len(hermitian) THEN IrfftPanics(SliceEnd)
       ELSE /\ ir_out' = Real(SubSeq(hermitian, 1, Len(ir_out)))
            /\ ir_pc' = "done"
            /\ UNCHANGED <<half, hermitian, ir_scratch, ir_panic>>
    /\ UNCHANGED not_irfft

NextIrfft ==
    \/ IrfftAlloc
    \/ HermitianAlloc
    \/ CopyHalf
    \/ Conjugate
    \/ Mirror
    \/ Recopy
    \/ ZeroPad
    \/ Process
    \/ Scale
    \/ TakeReal

SpecIrfft == InitIrfft /\ [][NextIrfft]_vars

\* ------------------------------------------------------------------------
\* A call of interp
\* ------------------------------------------------------------------------
\* positions on the epsilon grid of [0, 1]
GridPoints == {Norm(k, UnitsPerNyq) : k \in 0..UnitsPerNyq}

\* queries on a grid twice as fine, reaching past both ends of [0, 1]
Queries == {Norm(k, 2 * UnitsPerNyq) : k \in (-1)..(2 * UnitsPerNyq + 1)}

InitInterp ==
    /\ IdleFirwin
    /\ IdleTransforms
    /\ IdleIrfft
    /\ IdleBits
    /\ IdleElementwise
    /\ IdleRoll
    /\ IdleUnwrap
    /\ IdleVector
    /\ IdleArange
    /\ overflow_checks = TRUE
    /\ ip_pc = "call"
    /\ ip_self \in SeqsOver(Queries, 1)
    /\ \E n \in 1..MaxBreaks :
          /\ ip_xp \in SeqsOver(GridPoints, n)
          /\ ip_fp \in SeqsOver({R(g) : g \in 0..MaxGain}, n)
    /\ ip_out = <<>>

\* out = self.interp(xp, fp), lines 440-448: every slot of the fresh buffer
\* is written by interp_into
CallInterp ==
    /\ ip_pc = "call"
    /\ ip_out' = Interp(ip_self, ip_xp, ip_fp)
    /\ ip_pc' = "done"
    /\ UNCHANGED <<ip_self, ip_xp, ip_fp>>
    /\ UNCHANGED not_interp

SpecInterp == InitInterp /\ [][CallInterp]_vars

\* ------------------------------------------------------------------------
\* unpackbits and packbits
\* ------------------------------------------------------------------------
\* u8::BITS
ByteBits == 8

U8 == 0..(Pow2(ByteBits) - 1)

\* bit k of a u8, k = 0 the least significant: (v >> k) & 0x1
BitAt(v, k) == (v \div Pow2(k)) % 2

\* a | b on u8
RECURSIVE BitOrFrom(_, _, _)
BitOrFrom(a, b, k) ==
    IF k = ByteBits THEN 0
    ELSE (IF BitAt(a, k) = 1 \/ BitAt(b, k) = 1 THEN Pow2(k) ELSE 0)
         + BitOrFrom(a, b, k + 1)

BitOr(a, b) == BitOrFrom(a, b, 0)

\* v << offset on u8, 0 <= offset < 8: the bits shifted out are dropped
Shl(v, offset) == (v * Pow2(offset)) % Pow2(ByteBits)

\* unpackbits listing each byte's bits least significant first
Unpackbits_LeastSignificantFirst(self) ==
    [i \in 1..(ByteBits * Len(self)) |->
        BitAt(self[((i - 1) \div ByteBits) + 1], (i - 1) % ByteBits)]

\* unpackbits, lines 47-62: eight elements per byte, from x >> 7 to x >> 0
Unpackbits(self) ==
    [i \in 1..(ByteBits * Len(self)) |->
        BitAt(self[((i - 1) \div ByteBits) + 1],
              (ByteBits - 1) - ((i - 1) % ByteBits))]

\* the closure of lines 35-43 on one chunk, from element i on: out and offset
\* are the closure's locals
RECURSIVE PackChunkFrom(_, _, _, _)
PackChunkFrom(chunk, i, o, offset) ==
    IF i > Len(chunk) THEN o
    ELSE PackChunkFrom(chunk, i + 1, BitOr(o, Shl(chunk[i], offset)),
                       offset - 1)

\* self.chunks(8): consecutive chunks of eight elements, the last one shorter
Chunks(self, size) ==
    [c \in 1..((Len(self) + size - 1) \div size) |->
        SubSeq(self, (c - 1) * size + 1,
               IF c * size < Len(self) THEN c * size ELSE Len(self))]

\* packbits, lines 33-45
Packbits(self) ==
    LET chunks == Chunks(self, ByteBits)
    IN  [c \in 1..Len(chunks) |-> PackChunkFrom(chunks[c], 1, 0, ByteBits - 1)]

\* the longest buffer of bytes unpacked
MaxBytes == 2

\* bytes with one bit, with a run of bits, with alternating bits, with all
\* bits and with none (129 and 15 are the bytes of test_unpack_bits)
ByteSamples == {0, 1, 15, 128, 129, 170, 255}

\* every buffer of at most one byte, and longer ones over the samples
InitBits ==
    /\ IdleFirwin
    /\ IdleTransforms
    /\ IdleIrfft
    /\ IdleInterp
    /\ IdleElementwise
    /\ IdleRoll
    /\ IdleUnwrap
    /\ IdleVector
    /\ IdleArange
    /\ overflow_checks = TRUE
    /\ bt_pc = "call"
    /\ \/ \E n \in 0..1 : data \in SeqsOver(U8, n)
       \/ \E n \in 2..MaxBytes : data \in SeqsOver(ByteSamples, n)
    /\ bits = <<>>
    /\ recon_data = <<>>

\* let bits = data.unpackbits()
CallUnpackbits ==
    /\ bt_pc = "call"
    /\ bits' = Unpackbits(data)
    /\ bt_pc' = "unpacked"
    /\ UNCHANGED <<data, recon_data>>
    /\ UNCHANGED not_bits

\* let recon_data = bits.packbits()
CallPackbits ==
    /\ bt_pc = "unpacked"
    /\ recon_data' = Packbits(bits)
    /\ bt_pc' = "packed"
    /\ UNCHANGED <<data, bits>>
    /\ UNCHANGED not_bits

NextBits ==
    \/ CallUnpackbits
    \/ CallPackbits

SpecBits == InitBits /\ [][NextBits]_vars

\* ------------------------------------------------------------------------
\* add_into and multiply_into on the rayon pool
\* ------------------------------------------------------------------------
\* the longest buffer handed to an elementwise call
MaxSlots == 3

\* the threads of the pool
Workers == {"w1", "w2"}

\* element values
Samples == {1, 2}

\* what a fresh, unwritten slot of out may hold
Filler == {-7, 9}

Min(a, b) == IF a < b THEN a ELSE b

\* a zip that stops at the shorter of out and self only
ZipLen_IgnoresOther(o, self, other) == Min(Len(o), Len(self))

\* the length of out.par_iter_mut().zip(self).zip(other)
ZipLen(o, self, other) == Min(Min(Len(o), Len(self)), Len(other))

\* the closures of lines 115, 155, 196 and 235 (the elements are
\* non-negative integers, whose quotient truncates)
Elementwise(op, own, other) ==
    CASE op = "add_into" -> own + other
      [] op = "subtract_into" -> own - other
      [] op = "multiply_into" -> own * other
      [] op = "divide_into" -> IF other = 0 THEN 0 ELSE own \div other

\* line 235 on integers: a zero divisor panics ("attempt to divide by zero")
DivideByZero(op, other) == op = "divide_into" /\ other = 0

\* a split that leaves the element at the cut in both halves
SplitAt_Overlapping(range, mid) ==
    {<<range[1], range[1] + mid - 1>>, <<range[1] + mid - 1, range[2]>>}

\* rayon Producer::split_at on the zipped slices: the first mid elements and
\* the rest, as ranges <<first, last>> of 1-based indices
SplitAt(range, mid) ==
    {<<range[1], range[1] + mid - 1>>, <<range[1] + mid, range[2]>>}

NoJob == [lo |-> 1, hi |-> 0, pc |-> "read", own |-> 0, other |-> 0]

\* the k-th write of a slot is recorded with k
WriteCount(buffer, i) ==
    Cardinality({a \in accesses :
                    a.kind = "write" /\ a.buffer = buffer /\ a.index = i})

InitElementwise ==
    /\ IdleFirwin
    /\ IdleTransforms
    /\ IdleIrfft
    /\ IdleInterp
    /\ IdleBits
    /\ IdleRoll
    /\ IdleUnwrap
    /\ IdleVector
    /\ IdleArange
    /\ overflow_checks = TRUE
    /\ ew_pc = "call"
    /\ ew_op \in {"add_into", "multiply_into"}
    /\ \E n \in 0..MaxSlots :
          /\ ew_self \in SeqsOver(Samples, n)
          /\ ew_other \in SeqsOver(Samples, n)
          /\ \E g \in Filler : ew_out = [i \in 1..n |-> g]
    /\ pool = {}
    /\ job = [w \in Workers |-> NoJob]
    /\ accesses = {}

\* lines 111-114 / 192-195: the zipped iterator is handed to the pool as one
\* range (no range when it is empty)
Bridge ==
    /\ ew_pc = "call"
    /\ pool' = IF ZipLen(ew_out, ew_self, ew_other) = 0 THEN {}
               ELSE {<<1, ZipLen(ew_out, ew_self, ew_other)>>}
    /\ ew_pc' = "running"
    /\ UNCHANGED <<ew_op, ew_self, ew_other, ew_out, job, accesses>>
    /\ UNCHANGED not_elementwise

\* rayon bridge_producer_consumer: a range of two or more elements may be
\* split at its middle
Split ==
    /\ ew_pc = "running"
    /\ \E range \in pool :
          /\ range[2] > range[1]
          /\ pool' = (pool \ {range})
                       \cup SplitAt(range, (range[2] - range[1] + 1) \div 2)
    /\ UNCHANGED <<ew_pc, ew_op, ew_self, ew_other, ew_out, job, accesses>>
    /\ UNCHANGED not_elementwise

\* a worker without a range takes one from the pool
Take(w) ==
    /\ ew_pc = "running"
    /\ job[w].lo > job[w].hi
    /\ \E range \in pool :
          /\ pool' = pool \ {range}
          /\ job' = [job EXCEPT ![w] = [lo |-> range[1], hi |-> range[2],
                                         pc |-> "read", own |-> 0, other |-> 0]]
    /\ UNCHANGED <<ew_pc, ew_op, ew_self, ew_other, ew_out, accesses>>
    /\ UNCHANGED not_elementwise

\* the closure on the first element left of the worker's range: *own and
\* *other are read
ReadSlots(w) ==
    /\ ew_pc = "running"
    /\ job[w].lo <= job[w].hi
    /\ job[w].pc = "read"
    /\ job' = [job EXCEPT ![w].own = ew_self[job[w].lo],
                          ![w].other = ew_other[job[w].lo],
                          ![w].pc = "write"]
    /\ accesses' = accesses \cup
          {[worker |-> w, kind |-> "read", buffer |-> b, index |-> job[w].lo,
            nth |-> 0] : b \in {"self", "other"}}
    /\ UNCHANGED <<ew_pc, ew_op, ew_self, ew_other, ew_out, pool>>
    /\ UNCHANGED not_elementwise

\* ... and *out is written
WriteSlot(w) ==
    /\ ew_pc = "running"
    /\ job[w].lo <= job[w].hi
    /\ job[w].pc = "write"
    /\ IF DivideByZero(ew_op, job[w].other)
       THEN /\ ew_pc' = "failed"
            /\ UNCHANGED <<ew_out, accesses, job>>
       ELSE /\ ew_out' = [ew_out EXCEPT ![job[w].lo] =
                              Elementwise(ew_op, job[w].own, job[w].other)]
            /\ accesses' = accesses \cup
                  {[worker |-> w, kind |-> "write", buffer |-> "out",
                    index |-> job[w].lo,
                    nth |-> WriteCount("out", job[w].lo) + 1]}
            /\ job' = [job EXCEPT ![w].lo = job[w].lo + 1, ![w].pc = "read"]
            /\ ew_pc' = ew_pc
    /\ UNCHANGED <<ew_op, ew_self, ew_other, pool>>
    /\ UNCHANGED not_elementwise

\* for_each returns once no range is left and every worker has finished its
\* own
Join ==
    /\ ew_pc = "running"
    /\ pool = {}
    /\ \A w \in Workers : job[w].lo > job[w].hi
    /\ ew_pc' = "done"
    /\ UNCHANGED <<ew_op, ew_self, ew_other, ew_out, pool, job, accesses>>
    /\ UNCHANGED not_elementwise

NextElementwise ==
    \/ Bridge
    \/ Split
    \/ \E w \in Workers : Take(w)
    \/ \E w \in Workers : ReadSlots(w)
    \/ \E w \in Workers : WriteSlot(w)
    \/ Join

SpecElementwise == InitElementwise /\ [][NextElementwise]_vars

\* the four operations on buffers whose three lengths are not all equal
Dividends == {6}

Divisors == {0, 2}

InitZip ==
    /\ IdleFirwin
    /\ IdleTransforms
    /\ IdleIrfft
    /\ IdleInterp
    /\ IdleBits
    /\ IdleRoll
    /\ IdleUnwrap
    /\ IdleVector
    /\ IdleArange
    /\ overflow_checks = TRUE
    /\ ew_pc = "call"
    /\ ew_op \in {"add_into", "subtract_into", "multiply_into", "divide_into"}
    /\ \E n \in 0..MaxSlots, m \in 0..MaxSlots, k \in 0..MaxSlots :
          /\ ~(n = m /\ m = k)
          /\ ew_self \in SeqsOver(Dividends, n)
          /\ ew_other \in SeqsOver(Divisors, m)
          /\ \E g \in Filler : ew_out = [i \in 1..k |-> g]
    /\ pool = {}
    /\ job = [w \in Workers |-> NoJob]
    /\ accesses = {}

SpecZip == InitZip /\ [][NextElementwise]_vars

\* ------------------------------------------------------------------------
\* roll, roll_in_place, fftshift, fftshift_in_place
\* ------------------------------------------------------------------------
\* the longest buffer rolled
MaxRollLen == 4

\* the standard FFT bin ordering of length n:
\* 0, 1, ..., ceil(n/2) - 1, -floor(n/2), ..., -1
Bins(n) ==
    [i \in 1..n |-> IF i <= (n + 1) \div 2 THEN i - 1 ELSE i - 1 - n]

\* the elements buffers are made of: every bin of every length in bounds
BinValues == UNION {{Bins(n)[i] : i \in 1..n} : n \in 1..MaxRollLen}

\* roll_into, lines 57-61: every slot of other is written, slot idx with
\* self[(idx + shift) % self.len()]
RollInto(self, other, places) ==
    [idx \in 1..Len(other) |-> self[((idx - 1 + places) % Len(self)) + 1]]

\* roll, lines 63-68; the fresh buffer's contents are all overwritten
Roll(self, places) == RollInto(self, [i \in 1..Len(self) |-> 0], places)

\* roll_in_place, lines 70-74, from index idx (0-based) on
RECURSIVE RollInPlaceFrom(_, _, _)
RollInPlaceFrom(self, places, idx) ==
    IF idx >= Len(self) THEN self
    ELSE RollInPlaceFrom(
             [self EXCEPT ![idx + 1] = self[((idx + places) % Len(self)) + 1]],
             places, idx + 1)

RollInPlace(self, places) == RollInPlaceFrom(self, places, 0)

\* fftshift, lines 80-82
Fftshift(self) == Roll(self, Len(self) \div 2)

\* fftshift_in_place, lines 84-86
FftshiftInPlace(self) == RollInPlace(self, Len(self) \div 2)

InitRoll ==
    /\ IdleFirwin
    /\ IdleTransforms
    /\ IdleIrfft
    /\ IdleInterp
    /\ IdleBits
    /\ IdleElementwise
    /\ IdleUnwrap
    /\ IdleVector
    /\ IdleArange
    /\ overflow_checks = TRUE
    /\ rl_pc = "call"
    /\ \E n \in 0..MaxRollLen : rl_x \in SeqsOver(BinValues, n)
    /\ rl_shift \in 0..(MaxRollLen + 1)
    /\ rl_out = <<>>
    /\ rl_self = rl_x

\* let out = x.roll(shift)
CallRoll ==
    /\ rl_pc = "call"
    /\ rl_out' = Roll(rl_self, rl_shift)
    /\ rl_pc' = "rolled"
    /\ UNCHANGED <<rl_x, rl_shift, rl_self>>
    /\ UNCHANGED not_roll

\* x.roll_in_place(shift)
CallRollInPlace ==
    /\ rl_pc = "rolled"
    /\ rl_self' = RollInPlace(rl_self, rl_shift)
    /\ rl_pc' = "rolled_in_place"
    /\ UNCHANGED <<rl_x, rl_shift, rl_out>>
    /\ UNCHANGED not_roll

\* let out = x.fftshift(): the shift it passes on is len / 2
CallFftshift ==
    /\ rl_pc = "call"
    /\ rl_shift' = Len(rl_self) \div 2
    /\ rl_out' = Fftshift(rl_self)
    /\ rl_pc' = "shifted"
    /\ UNCHANGED <<rl_x, rl_self>>
    /\ UNCHANGED not_roll

\* x.fftshift_in_place()
CallFftshiftInPlace ==
    /\ rl_pc = "shifted"
    /\ rl_self' = FftshiftInPlace(rl_self)
    /\ rl_pc' = "shifted_in_place"
    /\ UNCHANGED <<rl_x, rl_shift, rl_out>>
    /\ UNCHANGED not_roll

NextRoll ==
    \/ CallRoll
    \/ CallRollInPlace
    \/ CallFftshift
    \/ CallFftshiftInPlace

SpecRoll == InitRoll /\ [][NextRoll]_vars

\* ------------------------------------------------------------------------
\* angle_unwrap and angle_unwrap_in_place
\* ------------------------------------------------------------------------
\* the longest buffer unwrapped
MaxAngles == 3

\* the largest angle, in whole units
MaxAngle == 2

Angles == {R(k) : k \in (-MaxAngle)..MaxAngle}

\* periods with a whole and with a fractional half
Periods == {R(2), R(3)}

IndexOutOfBounds == "index out of bounds"

\* the largest integer <= a
RFloor(a) == a[1] \div a[2]

\* a.rem_euclid(&p) for p > 0: the remainder in [0, p)
RemEuclid(a, p) == RSub(a, RMul(p, R(RFloor(RDiv(a, p)))))

\* lines 477-480 / 505-508: the step from prev to cur, wrapped into
\* [-period/2, period/2)
WrappedDiff(cur, prev, period) ==
    LET discont == RDiv(period, R(2))
        diff == RSub(cur, prev)
    IN  RSub(RemEuclid(RAdd(diff, discont), period), discont)

\* angle_unwrap_into, lines 468-483, from index idx (0-based) on
RECURSIVE AngleUnwrapIntoFrom(_, _, _, _)
AngleUnwrapIntoFrom(self, o, period, idx) ==
    IF idx >= Len(o) THEN o
    ELSE AngleUnwrapIntoFrom(
             self,
             [o EXCEPT ![idx + 1] =
                 RAdd(o[idx], WrappedDiff(self[idx + 1], self[idx], period))],
             period, idx + 1)

AngleUnwrapInto(self, o, period) == AngleUnwrapIntoFrom(self, o, period, 1)

\* angle_unwrap, lines 485-494: a fresh buffer holding g, whose slot 0 is
\* set to zero before angle_unwrap_into fills the rest
AngleUnwrap(self, period, g) ==
    IF Len(self) = 0 THEN [panic |-> IndexOutOfBounds, buf |-> <<>>]
    ELSE [panic |-> "",
          buf |-> AngleUnwrapInto(
                      self, [[i \in 1..Len(self) |-> g] EXCEPT ![1] = R(0)],
                      period)]

\* angle_unwrap_in_place, lines 496-512, from index idx (0-based) on
RECURSIVE AngleUnwrapInPlaceFrom(_, _, _)
AngleUnwrapInPlaceFrom(self, period, idx) ==
    IF idx >= Len(self) THEN self
    ELSE AngleUnwrapInPlaceFrom(
             [self EXCEPT ![idx + 1] =
                 RAdd(self[idx],
                      WrappedDiff(self[idx + 1], self[idx], period))],
             period, idx + 1)

AngleUnwrapInPlace(self, period) == AngleUnwrapInPlaceFrom(self, period, 1)

InitUnwrap ==
    /\ IdleFirwin
    /\ IdleTransforms
    /\ IdleIrfft
    /\ IdleInterp
    /\ IdleBits
    /\ IdleElementwise
    /\ IdleRoll
    /\ IdleVector
    /\ IdleArange
    /\ overflow_checks = TRUE
    /\ uw_pc = "call"
    /\ \E n \in 0..MaxAngles : uw_x \in SeqsOver(Angles, n)
    /\ uw_period \in Periods
    /\ uw_out = <<>>
    /\ uw_self = uw_x
    /\ uw_panic = ""

\* let out = x.angle_unwrap(Some(period))
CallAngleUnwrap ==
    /\ uw_pc = "call"
    /\ \E g \in Angles : \E r \in {AngleUnwrap(uw_self, uw_period, g)} :
          /\ uw_out' = r.buf
          /\ uw_panic' = r.panic
          /\ uw_pc' = IF r.panic = "" THEN "unwrapped" ELSE "failed"
    /\ UNCHANGED <<uw_x, uw_period, uw_self>>
    /\ UNCHANGED not_unwrap

\* x.angle_unwrap_in_place(Some(period))
CallAngleUnwrapInPlace ==
    /\ uw_pc = "unwrapped"
    /\ uw_self' = AngleUnwrapInPlace(uw_self, uw_period)
    /\ uw_pc' = "unwrapped_in_place"
    /\ UNCHANGED <<uw_x, uw_period, uw_out, uw_panic>>
    /\ UNCHANGED not_unwrap

NextUnwrap ==
    \/ CallAngleUnwrap
    \/ CallAngleUnwrapInPlace

SpecUnwrap == InitUnwrap /\ [][NextUnwrap]_vars

\* ------------------------------------------------------------------------
\* trapz (arithmetic.rs)
\* ------------------------------------------------------------------------
\* the longest buffer handed to trapz, convolve, diff and cumsum
MaxVecLen == 3

\* the other components at rest and nothing returned yet
VectorCall ==
    /\ IdleFirwin
    /\ IdleTransforms
    /\ IdleIrfft
    /\ IdleInterp
    /\ IdleBits
    /\ IdleElementwise
    /\ IdleRoll
    /\ IdleUnwrap
    /\ IdleArange
    /\ vm_out = <<>>
    /\ vm_x = <<>>
    /\ vm_panic = ""

\* sample values of a float buffer
Heights == {R(0), R(1), R(2), R(3)}

\* lines 412-421 from pair i on: acc is the local out, two is T::one() +
\* T::one()
RECURSIVE TrapzFrom(_, _, _)
TrapzFrom(self, i, acc) ==
    IF i > Len(self) - 1 THEN acc
    ELSE TrapzFrom(self, i + 1,
                   RAdd(acc, RDiv(RMul(self[i], self[i + 1]),
                                  RAdd(R(1), R(1)))))

\* trapz: &self[1..] of an empty slice panics
Trapz(self) ==
    IF Len(self) < 1
    THEN [panic |-> "range start index 1 out of range for slice of length 0",
          val |-> R(0)]
    ELSE [panic |-> "", val |-> TrapzFrom(self, 1, R(0))]

InitTrapz ==
    /\ VectorCall
    /\ vm_pc = "trapz"
    /\ overflow_checks \in BOOLEAN
    /\ vm_type = "f64"
    /\ \E n \in 0..MaxVecLen : vm_self \in SeqsOver(Heights, n)
    /\ vm_other = <<>>

CallTrapz ==
    /\ vm_pc = "trapz"
    /\ \E r \in {Trapz(vm_self)} :
          IF r.panic = ""
          THEN /\ vm_out' = r.val
               /\ vm_pc' = "done"
               /\ vm_panic' = vm_panic
          ELSE /\ vm_out' = vm_out
               /\ vm_pc' = "failed"
               /\ vm_panic' = r.panic
    /\ UNCHANGED <<vm_type, vm_self, vm_other, vm_x>>
    /\ UNCHANGED not_vector

SpecTrapz == InitTrapz /\ [][CallTrapz]_vars

\* ------------------------------------------------------------------------
\* convolve (arithmetic.rs)
\* ------------------------------------------------------------------------
Max(a, b) == IF a > b THEN a ELSE b

\* the closure of lines 396-402 for slot idx_out (0-based), from idx_n on:
\* acc is *out
RECURSIVE ConvolveSlotFrom(_, _, _, _, _)
ConvolveSlotFrom(self, other, idx_out, idx_n, acc) ==
    IF idx_n >= Min(Len(other), idx_out) THEN acc
    ELSE ConvolveSlotFrom(self, other, idx_out, idx_n + 1,
                          acc + self[idx_out - idx_n + 1] * other[idx_n + 1])

\* convolve_into, lines 395-403: every slot starts from what it holds
ConvolveInto(self, other, o) ==
    [k \in 1..Len(o) |->
        ConvolveSlotFrom(self, other, k - 1,
                         Max(0, (k - 1) + 1 - Len(self)), o[k])]

\* convolve, lines 405-410: out is allocated without being initialised, so
\* each of its slots holds any value
Convolve(self, other) ==
    {ConvolveInto(self, other, o) : o \in SeqsOver(Filler, Len(self))}

InitConvolve ==
    /\ VectorCall
    /\ vm_pc = "convolve"
    /\ overflow_checks = TRUE
    /\ vm_type = "i32"
    /\ \E n \in 0..MaxVecLen : vm_self \in SeqsOver(Samples, n)
    /\ \E n \in 0..MaxVecLen : vm_other \in SeqsOver(Samples, n)

CallConvolve ==
    /\ vm_pc = "convolve"
    /\ vm_out' \in Convolve(vm_self, vm_other)
    /\ vm_pc' = "done"
    /\ UNCHANGED <<vm_type, vm_self, vm_other, vm_x, vm_panic>>
    /\ UNCHANGED not_vector

SpecConvolve == InitConvolve /\ [][CallConvolve]_vars

\* ------------------------------------------------------------------------
\* diff, diff_in_place and cumsum_in_place on integers (arithmetic.rs)
\* ------------------------------------------------------------------------
\* the element type is a signed integer of ElemBits bits (i8 ... i64 in the
\* build)
ElemBits == 3

IntMin == 0 - Pow2(ElemBits - 1)

IntMax == Pow2(ElemBits - 1) - 1

\* the least and the greatest value, and the ones about zero
IntSamples == {IntMin, -1, 0, 1, IntMax}

\* two's complement wrapping of a result
WrapInt(v) == ((v - IntMin) % Pow2(ElemBits)) + IntMin

\* a - b or a + b on T, v being the exact result: an overflow panics under
\* overflow checks and wraps without them
Checked(v, checks, message) ==
    IF IntMin <= v /\ v <= IntMax THEN [panic |-> "", val |-> v]
    ELSE IF checks THEN [panic |-> message, val |-> 0]
    ELSE [panic |-> "", val |-> WrapInt(v)]

SubPanic == "attempt to subtract with overflow"

AddPanic == "attempt to add with overflow"

\* diff_into, lines 322-326: slot idx of out is self[idx + 1] - self[idx]
DiffInto(self, n, checks) ==
    LET slot(i) == Checked(self[i + 1] - self[i], checks, SubPanic)
    IN  IF \E i \in 1..n : slot(i).panic # ""
        THEN [panic |-> SubPanic, val |-> <<>>]
        ELSE [panic |-> "", val |-> [i \in 1..n |-> slot(i).val]]

\* diff, lines 328-333: self.len() - 1 is a usize, and of an empty buffer it
\* overflows: a panic under overflow checks, else a capacity beyond any
\* allocation
Diff(self, checks) ==
    IF Len(self) = 0
    THEN [panic |-> IF checks THEN SubPanic ELSE "capacity overflow",
          val |-> <<>>]
    ELSE DiffInto(self, Len(self) - 1, checks)

\* the loop of diff_in_place taking the indices in increasing order
RECURSIVE DiffInPlaceForwardFrom(_, _, _)
DiffInPlaceForwardFrom(self, i, checks) ==
    IF i > Len(self) THEN [panic |-> "", val |-> self]
    ELSE LET d == Checked(self[i] - self[i - 1], checks, SubPanic)
         IN  IF d.panic # "" THEN [panic |-> d.panic, val |-> self]
             ELSE DiffInPlaceForwardFrom([self EXCEPT ![i] = d.val], i + 1,
                                         checks)

DiffInPlace_Forward(self, checks) == DiffInPlaceForwardFrom(self, 2, checks)

\* the loop of lines 336-338 from index i (1-based) down to the second
\* element
RECURSIVE DiffInPlaceFrom(_, _, _)
DiffInPlaceFrom(self, i, checks) ==
    IF i < 2 THEN [panic |-> "", val |-> self]
    ELSE LET d == Checked(self[i] - self[i - 1], checks, SubPanic)
         IN  IF d.panic # "" THEN [panic |-> d.panic, val |-> self]
             ELSE DiffInPlaceFrom([self EXCEPT ![i] = d.val], i - 1, checks)

\* diff_in_place, lines 335-340
DiffInPlace(self, checks) == DiffInPlaceFrom(self, Len(self), checks)

\* the loop of lines 359-362 from element i on, sum being the local
RECURSIVE CumsumInPlaceFrom(_, _, _, _)
CumsumInPlaceFrom(self, i, sum, checks) ==
    IF i > Len(self) THEN [panic |-> "", val |-> self]
    ELSE LET t == Checked(sum + self[i], checks, AddPanic)
         IN  IF t.panic # "" THEN [panic |-> t.panic, val |-> self]
             ELSE CumsumInPlaceFrom([self EXCEPT ![i] = t.val], i + 1, t.val,
                                    checks)

\* cumsum_in_place, lines 357-364
CumsumInPlace(self, checks) == CumsumInPlaceFrom(self, 1, 0, checks)

InitDiff ==
    /\ VectorCall
    /\ vm_pc = "diff"
    /\ overflow_checks \in BOOLEAN
    /\ vm_type = "int"
    /\ \E n \in 0..MaxVecLen : vm_self \in SeqsOver(IntSamples, n)
    /\ vm_other = <<>>

\* let d = x.diff(), whose panic, if any, is kept with the result
CallDiff ==
    /\ vm_pc = "diff"
    /\ vm_out' = Diff(vm_self, overflow_checks)
    /\ vm_x' = vm_self
    /\ vm_pc' = "diffed"
    /\ UNCHANGED <<vm_type, vm_self, vm_other, vm_panic>>
    /\ UNCHANGED not_vector

\* x.diff_in_place()
CallDiffInPlace ==
    /\ vm_pc = "diffed"
    /\ \E r \in {DiffInPlace(vm_x, overflow_checks)} :
          /\ vm_x' = r.val
          /\ vm_panic' = r.panic
          /\ vm_pc' = IF r.panic = "" THEN "diffed_in_place" ELSE "failed"
    /\ UNCHANGED <<vm_type, vm_self, vm_other, vm_out>>
    /\ UNCHANGED not_vector

\* x.cumsum_in_place()
CallCumsumInPlace ==
    /\ vm_pc = "diffed_in_place"
    /\ \E r \in {CumsumInPlace(vm_x, overflow_checks)} :
          /\ vm_x' = r.val
          /\ vm_panic' = r.panic
          /\ vm_pc' = IF r.panic = "" THEN "restored" ELSE "failed"
    /\ UNCHANGED <<vm_type, vm_self, vm_other, vm_out>>
    /\ UNCHANGED not_vector

NextDiff ==
    \/ CallDiff
    \/ CallDiffInPlace
    \/ CallCumsumInPlace

SpecDiff == InitDiff /\ [][NextDiff]_vars

\* ------------------------------------------------------------------------
\* pack_into (bits.rs)
\* ------------------------------------------------------------------------
\* the integer types T of the calls
IntTypes == {"u8", "i8", "u16", "i16"}

\* size_of::<T>() * 8
BitWidth(t) == IF t \in {"u8", "i8"} THEN ByteBits ELSE 2 * ByteBits

Signed(t) == t \in {"i8", "i16"}

\* a | b on the bit patterns of a type w bits wide
RECURSIVE BitOrWideFrom(_, _, _, _)
BitOrWideFrom(a, b, k, w) ==
    IF k = w THEN 0
    ELSE (IF BitAt(a, k) = 1 \/ BitAt(b, k) = 1 THEN Pow2(k) ELSE 0)
         + BitOrWideFrom(a, b, k + 1, w)

\* the value of T that a bit pattern stands for: two's complement when T is
\* signed
ValueOf(pattern, t) ==
    IF Signed(t) /\ pattern >= Pow2(BitWidth(t) - 1)
    THEN pattern - Pow2(BitWidth(t))
    ELSE pattern

\* a shift by the element's index
PackShift_ByIndex(len, idx) == idx

\* line 74: the shift of element idx (0-based)
PackShift(len, idx) == len - 1 - idx

\* the loop of lines 72-76 from element idx (0-based) on, sum as a bit
\* pattern
RECURSIVE PackIntoFrom(_, _, _, _)
PackIntoFrom(self, t, idx, sum) ==
    IF idx >= Len(self) THEN sum
    ELSE PackIntoFrom(self, t, idx + 1,
            BitOrWideFrom(sum,
                (self[idx + 1] * Pow2(PackShift(Len(self), idx)))
                    % Pow2(BitWidth(t)),
                0, BitWidth(t)))

\* pack_into::<T>, lines 64-79
PackInto(self, t) ==
    IF ~(Len(self) <= BitWidth(t))
    THEN [panic |-> "assertion failed: self.len() <= size_of::<T>() * 8",
          val |-> 0]
    ELSE [panic |-> "", val |-> ValueOf(PackIntoFrom(self, t, 0, 0), t)]

\* the buffers of bits: every prefix of the bits of the sample bytes
InitPack ==
    /\ VectorCall
    /\ vm_pc = "pack_into"
    /\ overflow_checks \in BOOLEAN
    /\ vm_type \in IntTypes
    /\ \E n \in 0..MaxBytes : \E bytes \in SeqsOver(ByteSamples, n) :
          \E k \in 0..(ByteBits * n) :
              vm_self = SubSeq(Unpackbits(bytes), 1, k)
    /\ vm_other = <<>>

CallPackInto ==
    /\ vm_pc = "pack_into"
    /\ \E r \in {PackInto(vm_self, vm_type)} :
          IF r.panic = ""
          THEN /\ vm_out' = r.val
               /\ vm_pc' = "done"
               /\ vm_panic' = vm_panic
          ELSE /\ vm_out' = vm_out
               /\ vm_pc' = "failed"
               /\ vm_panic' = r.panic
    /\ UNCHANGED <<vm_type, vm_self, vm_other, vm_x>>
    /\ UNCHANGED not_vector

SpecPack == InitPack /\ [][CallPackInto]_vars

\* ------------------------------------------------------------------------
\* arange (utils.rs), on the integers of ElemBits bits
\* ------------------------------------------------------------------------
\* the elements that memory holds: more than any range of distinct values of
\* the type has
Capacity == Pow2(ElemBits)

InitArange ==
    /\ IdleFirwin
    /\ IdleTransforms
    /\ IdleIrfft
    /\ IdleInterp
    /\ IdleBits
    /\ IdleElementwise
    /\ IdleRoll
    /\ IdleUnwrap
    /\ IdleVector
    /\ overflow_checks \in BOOLEAN
    /\ ag_pc = "loop"
    /\ ag_start \in IntMin..IntMax
    /\ ag_stop \in IntMin..IntMax
    /\ ag_step \in IntMin..IntMax
    /\ curr = ag_start
    /\ ag_out = <<>>

\* lines 52-55, one turn of the loop: out.push(curr), which aborts the
\* process when memory is exhausted, then curr = curr + step
Push ==
    /\ ag_pc = "loop"
    /\ curr < ag_stop
    /\ IF Len(ag_out) >= Capacity
       THEN /\ ag_pc' = "aborted"
            /\ UNCHANGED <<curr, ag_out>>
       ELSE \E r \in {Checked(curr + ag_step, overflow_checks, AddPanic)} :
               /\ ag_out' = Append(ag_out, curr)
               /\ curr' = r.val
               /\ ag_pc' = IF r.panic = "" THEN "loop" ELSE "failed"
    /\ UNCHANGED <<ag_start, ag_stop, ag_step>>
    /\ UNCHANGED not_arange

\* lines 52 and 57: the condition fails and out is returned
Return ==
    /\ ag_pc = "loop"
    /\ ~(curr < ag_stop)
    /\ ag_pc' = "done"
    /\ UNCHANGED <<ag_start, ag_stop, ag_step, curr, ag_out>>
    /\ UNCHANGED not_arange

NextArange ==
    \/ Push
    \/ Return

SpecArange == InitArange /\ [][NextArange]_vars

\* the call is a sequential loop that keeps running
SpecArangeFair == SpecArange /\ WF_vars(NextArange)

\* ------------------------------------------------------------------------
\* Properties of firwin2
\* ------------------------------------------------------------------------
IsEven(n) == n % 2 = 0
First(s) == s[1]
Last(s) == s[Len(s)]
AssertionMessages == {TypeII, TypeIII, TypeIV}
PastClassification == fw_pc \notin {"start", "perturbed"}
TransformWork == <<x, fx, shift, fx2, out_full>>

\* C1: once the match has run, the call has been stopped by an assertion
\* exactly when the filter is Type II with gains[last] # 0, Type III with
\* gains[0] # 0 or gains[last] # 0, or Type IV with gains[0] # 0; the message
\* is the one of that type, and a call that was not stopped carries the type
\* of the table: I (false, odd), II (false, even), III (true, odd),
\* IV (true, even).  Type I is never stopped.
C1_TypeTableAndAssertions ==
    PastClassification =>
        LET type == IF antisymmetric THEN (IF IsEven(numtaps) THEN 4 ELSE 3)
                    ELSE (IF IsEven(numtaps) THEN 2 ELSE 1)
            violated ==
                \/ type = 2 /\ Last(gains) # R(0)
                \/ type = 3 /\ (First(gains) # R(0) \/ Last(gains) # R(0))
                \/ type = 4 /\ First(gains) # R(0)
        IN  /\ (fw_pc = "failed" /\ fw_panic \in AssertionMessages) <=> violated
            /\ fw_pc = "failed" /\ fw_panic \in AssertionMessages =>
                   fw_panic = (CASE type = 2 -> TypeII
                                 [] type = 3 -> TypeIII
                                 [] type = 4 -> TypeIV
                                 [] OTHER -> "")
            /\ fw_pc # "failed" => ftype = type

\* a Type II design with non-zero gain at Nyquist and zero gain at zero was
\* stopped by its assertion
C1_Witness ==
    /\ fw_pc = "failed"
    /\ fw_panic = TypeII
    /\ First(gains) = R(0)
    /\ Last(gains) # R(0)

\* C2: an antisymmetric odd-length design with gains[0] # 0 or
\* gains[last] # 0 never gets past the match: the grid, the interpolated
\* gains, the phase shift, the half-spectrum and the irfft result are never
\* built.
C2_TypeIIIFailsBeforeTransformWork ==
    (antisymmetric /\ ~IsEven(numtaps)
        /\ (First(gains) # R(0) \/ Last(gains) # R(0))) =>
        /\ fw_pc \in {"start", "perturbed", "failed"}
        /\ TransformWork = <<<<>>, <<>>, <<>>, <<>>, <<>>>>

\* a Type III design with zero gain at zero but not at Nyquist has failed
C2_Witness ==
    /\ fw_pc = "failed"
    /\ antisymmetric
    /\ ~IsEven(numtaps)
    /\ First(gains) = R(0)
    /\ Last(gains) # R(0)

\* C3: the coefficients returned for an antisymmetric odd-length design
\* hold exactly 0.0 at index numtaps / 2.
C3_TypeIIICenterTapZero ==
    (fw_pc = "done" /\ antisymmetric /\ ~IsEven(numtaps)) =>
        out[(numtaps \div 2) + 1] = ZERO

\* a three-tap Type III design has returned
C3_Witness ==
    /\ fw_pc = "done"
    /\ antisymmetric
    /\ numtaps = 3
    /\ Len(out) = 3

\* C4: for numtaps >= 1 a design that passes the assertions of the match
\* is not stopped later, and the buffer it returns has numtaps coefficients.
C4_ReturnsNumtapsCoefficients ==
    numtaps >= 1 =>
        /\ fw_pc = "failed" => fw_panic \in AssertionMessages
        /\ fw_pc = "done" => Len(out) = numtaps

\* a symmetric three-tap design has returned; its transform was longer
C4_Witness ==
    /\ fw_pc = "done"
    /\ ~antisymmetric
    /\ numtaps = 3
    /\ Len(out_full) > numtaps

\* C12 as stated: once the perturbation loop has run on a non-decreasing
\* freqs over the epsilon grid, no two adjacent frequencies are equal
C12_NoAdjacentEqualAfterPerturbation ==
    fw_pc \notin {"idle", "start"} =>
        \A i \in 1..(Len(freqs) - 1) : freqs[i] # freqs[i + 1]

\* C13 as stated: for every numtaps >= 1 the grid size is nfreqs = 1 + p
\* with p the smallest power of two that is >= numtaps
C13_GridSizeIsNextPowerOfTwo ==
    (fw_pc = "perturbed" /\ numtaps >= 1) =>
        \E k \in 0..(F32MantissaDigits + 1) :
            /\ nfreqs = 1 + Pow2(k)
            /\ Pow2(k) >= numtaps
            /\ k > 0 => Pow2(k - 1) < numtaps

\* ------------------------------------------------------------------------
\* Properties of fft and ifft
\* ------------------------------------------------------------------------
\* e^(-2 pi i e / n) for n in {1, 2, 4}
UnitRoot(n, e) ==
    LET q == ((e % n) * (4 \div n)) % 4
    IN  CASE q = 0 -> Cx(1, 0)
          [] q = 1 -> Cx(0, -1)
          [] q = 2 -> Cx(-1, 0)
          [] q = 3 -> Cx(0, 1)

\* the kernel of the forward DFT, and its conjugate for the inverse DFT
Kernel(n, e, call) == IF call = "fft" THEN UnitRoot(n, e) ELSE CConj(UnitRoot(n, e))

\* sum over n < upto of xs[n] * kernel^(n k): the unnormalized DFT at bin k
RECURSIVE DftSum(_, _, _, _)
DftSum(xs, k, call, upto) ==
    IF upto = 0 THEN Cx(0, 0)
    ELSE CAdd(DftSum(xs, k, call, upto - 1),
              CMul(xs[upto], Kernel(Len(xs), (upto - 1) * k, call)))

UnnormalizedDft(xs, k, call) == DftSum(xs, k, call, Len(xs))

\* z / n for a real n
Over(z, n) == [re |-> RDiv(z.re, R(n)), im |-> RDiv(z.im, R(n))]

\* C7 as stated: fft(ifft(x)) = x / N^2 elementwise
C7_RoundTripOverNSquared ==
    (calls = <<"ifft", "fft">> /\ ft_panic = "" /\ Len(signal) >= 1) =>
        /\ Len(buf) = Len(signal)
        /\ \A k \in 1..Len(signal) :
              buf[k] = Over(signal[k], Len(signal) * Len(signal))

\* C7 (amended): for every buffer x of length N >= 1, ifft followed by fft
\* returns, without a panic, x / N elementwise: the engine's unnormalized
\* pair multiplies by N and the two divisions remove N^2.
C7_RoundTripOverN ==
    (calls = <<"ifft", "fft">> /\ Len(signal) >= 1) =>
        /\ ft_panic = ""
        /\ Len(buf) = Len(signal)
        /\ \A k \in 1..Len(signal) : buf[k] = Over(signal[k], Len(signal))

\* a four-point round trip of a buffer whose bins 1 and 3 differ, with a
\* non-zero bin 0
C7_Witness ==
    /\ calls = <<"ifft", "fft">>
    /\ Len(signal) = 4
    /\ signal[1] # Cx(0, 0)
    /\ signal[2] # signal[4]
    /\ buf # signal

\* C8: one call of fft (ifft) on a buffer of length N >= 1 returns, without
\* a panic, N values, the value at bin k being the unnormalized forward
\* (inverse) DFT sum of the input at bin k, divided by N.
C8_TransformsScaleByN ==
    (Len(calls) = 1 /\ Len(signal) >= 1) =>
        /\ ft_panic = ""
        /\ Len(buf) = Len(signal)
        /\ \A k \in 1..Len(signal) :
              buf[k] = Over(UnnormalizedDft(signal, k - 1, calls[1]),
                            Len(signal))

\* a four-point inverse transform of a buffer with a non-real bin 1
C8_Witness ==
    /\ calls = <<"ifft">>
    /\ ft_panic = ""
    /\ Len(signal) = 4
    /\ signal[2] = Cx(1, 1)
    /\ buf # signal

\* C11 as stated: fft called on an empty buffer (N = 0) fails, it is
\* stopped by a panic and returns no buffer
C11_FftFailsOnEmpty ==
    (Len(signal) = 0 /\ calls # <<>> /\ calls[1] = "fft") => ft_panic # ""

\* C11 (amended): fft called on an empty buffer (N = 0) is not stopped by a
\* panic and returns an empty buffer: the length-0 plan returns at once and
\* the division by N touches no element.
C11_FftOfEmptyIsEmpty ==
    (Len(signal) = 0 /\ calls # <<>> /\ calls[1] = "fft") =>
        /\ ft_panic = ""
        /\ buf = <<>>

\* fft has returned from a call on an empty buffer
C11_Witness ==
    /\ signal = <<>>
    /\ calls = <<"fft">>
    /\ ft_panic = ""
    /\ buf = <<>>

\* ------------------------------------------------------------------------
\* Properties of interp
\* ------------------------------------------------------------------------
RLess(a, b) == ~RGe(a, b)

IsNonDecreasing(s) == \A i \in 1..(Len(s) - 1) : RGe(s[i + 1], s[i])

IsStrictlyIncreasing(s) == \A i \in 1..(Len(s) - 1) : RLess(s[i], s[i + 1])

\* C14 as stated: for every query q and breakpoints of equal non-zero
\* length, interp returns fp[0] when q <= xp[0] and fp[last] when q is above
\* the last breakpoint
C14_ClampsOutsideBreakpoints ==
    ip_pc = "done" =>
        /\ RGe(ip_xp[1], ip_self[1]) => ip_out[1] = ip_fp[1]
        /\ RLess(Last(ip_xp), ip_self[1]) => ip_out[1] = Last(ip_fp)

\* C14 (amended): interp returns fp[0] when q <= xp[0], for every
\* breakpoints; it returns fp[last] when q is above the last breakpoint and
\* xp is non-decreasing.
C14_ClampsOutsideSortedBreakpoints ==
    ip_pc = "done" =>
        /\ RGe(ip_xp[1], ip_self[1]) => ip_out[1] = ip_fp[1]
        /\ (IsNonDecreasing(ip_xp) /\ RLess(Last(ip_xp), ip_self[1])) =>
               ip_out[1] = Last(ip_fp)

\* interp has answered a query above the last of several non-decreasing
\* breakpoints whose last two values differ
C14_Witness ==
    /\ ip_pc = "done"
    /\ Len(ip_xp) >= 2
    /\ IsNonDecreasing(ip_xp)
    /\ RLess(Last(ip_xp), ip_self[1])
    /\ ip_fp[Len(ip_fp) - 1] # Last(ip_fp)
    /\ ip_out[1] = Last(ip_fp)

\* the 1-based index of the first breakpoint >= q
FirstAtOrAbove(xp, q) ==
    CHOOSE b \in 1..Len(xp) :
        /\ RGe(xp[b], q)
        /\ \A c \in 1..(b - 1) : RLess(xp[c], q)

Between(v, a, b) == (RGe(v, a) /\ RGe(b, v)) \/ (RGe(v, b) /\ RGe(a, v))

\* C15: for xp[0] < q <= xp[last] on strictly increasing breakpoints, with b
\* the first index whose breakpoint is >= q, interp returns the point of the
\* line through (xp[b-1], fp[b-1]) and (xp[b], fp[b]) at q; it equals fp[b]
\* when q = xp[b] and lies between fp[b-1] and fp[b].
C15_InteriorIsLinearInterpolation ==
    (/\ ip_pc = "done"
     /\ IsStrictlyIncreasing(ip_xp)
     /\ RLess(ip_xp[1], ip_self[1])
     /\ RGe(Last(ip_xp), ip_self[1])) =>
        LET q == ip_self[1]
            b == FirstAtOrAbove(ip_xp, q)
            r == ip_out[1]
        IN  /\ b >= 2
            /\ RMul(RSub(r, ip_fp[b - 1]), RSub(ip_xp[b], ip_xp[b - 1]))
                   = RMul(RSub(ip_fp[b], ip_fp[b - 1]), RSub(q, ip_xp[b - 1]))
            /\ q = ip_xp[b] => r = ip_fp[b]
            /\ Between(r, ip_fp[b - 1], ip_fp[b])

\* interp has answered a query strictly inside a segment whose end values
\* differ
C15_Witness ==
    /\ ip_pc = "done"
    /\ IsStrictlyIncreasing(ip_xp)
    /\ Len(ip_xp) >= 2
    /\ RLess(ip_xp[1], ip_self[1])
    /\ RLess(ip_self[1], ip_xp[2])
    /\ ip_fp[1] # ip_fp[2]
    /\ ip_out[1] \notin {ip_fp[1], ip_fp[2]}

\* ------------------------------------------------------------------------
\* Properties of unpackbits and packbits
\* ------------------------------------------------------------------------
\* the number whose binary digits, most significant first, are s
RECURSIVE BinaryValue(_)
BinaryValue(s) ==
    IF s = <<>> THEN 0
    ELSE 2 * BinaryValue(SubSeq(s, 1, Len(s) - 1)) + s[Len(s)]

\* C16: unpackbits(b) has length 8 * len(b), every element is 0 or 1, the
\* eight elements of each byte are its binary digits most significant
\* first, and packbits(unpackbits(b)) = b.
C16_UnpackThenPackIsIdentity ==
    /\ bt_pc \in {"unpacked", "packed"} =>
          /\ Len(bits) = 8 * Len(data)
          /\ \A i \in 1..Len(bits) : bits[i] \in {0, 1}
          /\ \A j \in 1..Len(data) :
                 /\ BinaryValue(SubSeq(bits, 8 * (j - 1) + 1, 8 * j)) = data[j]
                 /\ bits[8 * (j - 1) + 1] = 1 <=> data[j] >= 128
    /\ bt_pc = "packed" => recon_data = data

\* the bytes of test_unpack_bits have been unpacked and packed again
C16_Witness ==
    /\ bt_pc = "packed"
    /\ data = <<129, 15>>
    /\ bits = <<1, 0, 0, 0, 0, 0, 0, 1, 0, 0, 0, 0, 1, 1, 1, 1>>
    /\ recon_data = <<129, 15>>

\* ------------------------------------------------------------------------
\* Properties of the elementwise operations on the pool
\* ------------------------------------------------------------------------
Writes == {a \in accesses : a.kind = "write"}

Reads == {a \in accesses : a.kind = "read"}

\* C17: when add_into or multiply_into over equal-length buffers is run by
\* several workers, every output slot is written by exactly one worker (at
\* most once while the call runs, exactly once when it has returned), no
\* worker reads a slot that another worker writes, and whatever the
\* interleaving the returned output is the index-by-index result.
C17_DisjointSlotsDeterministicResult ==
    ew_pc \in {"running", "done"} =>
        /\ \A a \in Writes : a.buffer = "out" /\ a.nth = 1
        /\ \A a \in Reads : \A b \in Writes :
               (a.buffer = b.buffer /\ a.index = b.index) =>
                   a.worker = b.worker
        /\ ew_pc = "done" =>
               /\ \A i \in 1..Len(ew_out) :
                      Cardinality({a \in Writes : a.index = i}) = 1
               /\ Len(ew_out) = Len(ew_self)
               /\ \A i \in 1..Len(ew_out) :
                      ew_out[i] = IF ew_op = "add_into"
                                  THEN ew_self[i] + ew_other[i]
                                  ELSE ew_self[i] * ew_other[i]

\* a call has returned whose slots were written by two different workers
C17_Witness ==
    /\ ew_pc = "done"
    /\ Len(ew_out) >= 2
    /\ \E a \in Writes : \E b \in Writes : a.worker # b.worker
    /\ \A i \in 1..Len(ew_out) : ew_out[i] \notin Filler

\* ------------------------------------------------------------------------
\* Properties of roll and fftshift
\* ------------------------------------------------------------------------
\* C18 as stated: after roll_in_place the buffer equals roll(x, shift), that
\* is x'[i] = x[(i + shift) mod len] for every i, and after
\* fftshift_in_place it equals fftshift(x)
C18_InPlaceEqualsAllocating ==
    rl_pc \in {"rolled_in_place", "shifted_in_place"} =>
        /\ rl_self = rl_out
        /\ \A i \in 1..Len(rl_x) :
               rl_self[i] = rl_x[((i - 1 + rl_shift) % Len(rl_x)) + 1]

\* C19 as stated: for every n >= 1, fftshift of the standard FFT bin
\* ordering of length n is strictly ascending with the zero bin at index
\* floor(n/2)
C19_FftshiftSortsBins ==
    (/\ rl_pc \in {"shifted", "shifted_in_place"}
     /\ Len(rl_x) >= 1
     /\ rl_x = Bins(Len(rl_x))) =>
        /\ \A i \in 1..(Len(rl_out) - 1) : rl_out[i] < rl_out[i + 1]
        /\ rl_out[(Len(rl_x) \div 2) + 1] = 0

\* ------------------------------------------------------------------------
\* Properties of angle unwrapping
\* ------------------------------------------------------------------------
\* a - b is a whole multiple of p
Congruent(a, b, p) == RDiv(RSub(a, b), p)[2] = 1

\* C20 as stated: for every buffer x of length >= 1 and every period,
\* angle_unwrap(x, period) equals x after angle_unwrap_in_place(period), and
\* every output element is congruent to its input element modulo period
C20_UnwrapVariantsAgree ==
    (uw_pc = "unwrapped_in_place" /\ Len(uw_x) >= 1) =>
        /\ uw_out = uw_self
        /\ \A i \in 1..Len(uw_x) :
               /\ Congruent(uw_out[i], uw_x[i], uw_period)
               /\ Congruent(uw_self[i], uw_x[i], uw_period)

\* C26 as stated: the perturbation loop preserves ordering, the perturbed
\* freqs of a non-decreasing input are non-decreasing
C26_PerturbationPreservesOrder ==
    fw_pc \notin {"idle", "start"} => IsNonDecreasing(freqs)

\* C27: whenever interp_into takes the interpolation branch (0 < bin <
\* len(xp)) the slope denominator xp[bin] - xp[bin-1] is strictly positive,
\* whatever the breakpoints, equal adjacent ones included.
C27_InteriorDenominatorPositive ==
    ip_pc \in {"call", "done"} =>
        LET bin == Position(ip_xp, ip_self[1])
        IN  (0 < bin /\ bin < Len(ip_xp)) =>
                RLess(R(0), RSub(ip_xp[bin + 1], ip_xp[bin]))

\* interp has interpolated between breakpoints of a sequence that holds two
\* equal adjacent breakpoints
C27_Witness ==
    /\ ip_pc = "done"
    /\ \E i \in 1..(Len(ip_xp) - 1) : ip_xp[i] = ip_xp[i + 1]
    /\ 0 < Position(ip_xp, ip_self[1])
    /\ Position(ip_xp, ip_self[1]) < Len(ip_xp)
    /\ ip_fp[Position(ip_xp, ip_self[1])]
           # ip_fp[Position(ip_xp, ip_self[1]) + 1]

C29_WindowedCoefficientsDefined ==
    (fw_pc = "windowed" /\ numtaps >= 1) =>
        /\ Len(Hamming(numtaps)) = numtaps
        /\ Len(out) = numtaps
        /\ \A i \in 1..Len(out) : out[i] # NAN

\* the least of the three lengths
Shortest == Min(Len(ew_self), Min(Len(ew_other), Len(ew_out)))

\* the slots of out beyond the shortest length hold what they held before
\* the call and no write of them is recorded
TailUntouched ==
    /\ \A a \in Writes : a.index <= Shortest
    /\ \A i \in (Shortest + 1)..Len(ew_out) :
           ew_out[i] \in Filler /\ ew_out[i] = ew_out[Len(ew_out)]

\* every one of the first Shortest slots was written once, with the
\* operation's result
PrefixWritten ==
    \A i \in 1..Shortest :
        /\ Cardinality({a \in Writes : a.index = i}) = 1
        /\ ew_out[i] = Elementwise(ew_op, ew_self[i], ew_other[i])

\* C30 as stated: with lengths that differ, exactly the first min(len)
\* slots of out are written, the others are left unchanged, and the call
\* does not abort
C30_ShortestPrefixWrittenNoAbort ==
    /\ ew_pc # "failed"
    /\ ew_pc = "running" =>
           /\ \A range \in pool : range[2] <= Shortest
           /\ TailUntouched
    /\ ew_pc = "done" => PrefixWritten /\ TailUntouched

\* C30, amended: the same, except that divide_into on integers aborts on a
\* zero divisor within the first min(len) slots, and only then
C30_ShortestPrefixWrittenUnlessZeroDivisor ==
    /\ ew_pc = "failed" =>
           /\ ew_op = "divide_into"
           /\ \E i \in 1..Shortest : ew_other[i] = 0
           /\ TailUntouched
    /\ ew_pc = "running" =>
           /\ \A range \in pool : range[2] <= Shortest
           /\ TailUntouched
    /\ ew_pc = "done" =>
           /\ PrefixWritten
           /\ TailUntouched
           /\ ew_op = "divide_into" => \A i \in 1..Shortest : ew_other[i] # 0

\* divide_into has returned on three different lengths, out the longest
C30_Witness ==
    /\ ew_pc = "done"
    /\ ew_op = "divide_into"
    /\ Shortest >= 1
    /\ Len(ew_out) > Len(ew_self)
    /\ Len(ew_self) > Len(ew_other)
    /\ Cardinality({a.index : a \in Writes}) = Shortest

\* the unit-spacing trapezoidal rule from pair i on
RECURSIVE TrapezoidalRuleFrom(_, _)
TrapezoidalRuleFrom(s, i) ==
    IF i > Len(s) - 1 THEN R(0)
    ELSE RAdd(RDiv(RAdd(s[i], s[i + 1]), R(2)), TrapezoidalRuleFrom(s, i + 1))

\* C24 as stated: for a buffer of length >= 1 trapz returns the sum over i
\* of (x[i] + x[i+1]) / 2
C24_TrapzIsTrapezoidalRule ==
    (vm_pc \in {"done", "failed"} /\ Len(vm_self) >= 1) =>
        /\ vm_pc = "done"
        /\ vm_out = TrapezoidalRuleFrom(vm_self, 1)

\* the convolution sum for element k (0-based), over the n from n0 to k
\* with n < len(b) and k - n < len(a)
RECURSIVE ConvolutionSumFrom(_, _, _, _)
ConvolutionSumFrom(a, b, k, n0) ==
    IF n0 > k THEN 0
    ELSE (IF n0 < Len(b) /\ k - n0 < Len(a)
          THEN a[k - n0 + 1] * b[n0 + 1] ELSE 0)
         + ConvolutionSumFrom(a, b, k, n0 + 1)

\* C22 as stated: convolve returns len(self) elements that depend only on
\* the inputs, element k being the convolution sum over 0 <= n <= k
C22_ConvolveIsConvolutionSum ==
    (vm_pc = "done" /\ Len(vm_self) >= 1) =>
        /\ Len(vm_out) = Len(vm_self)
        /\ \A k \in 1..Len(vm_out) :
               vm_out[k] = ConvolutionSumFrom(vm_self, vm_other, k - 1, 0)

\* x[i] - x[i-1] as integers, for the 1-based i >= 2
Difference(s, i) == s[i] - s[i - 1]

\* every difference of neighbours is a value of the element type
DifferencesRepresentable(s) ==
    \A i \in 2..Len(s) :
        IntMin <= Difference(s, i) /\ Difference(s, i) <= IntMax

\* the buffer after diff_in_place holds x[0] and the differences
HoldsDifferences ==
    /\ Len(vm_x) = Len(vm_self)
    /\ Len(vm_x) >= 1 => vm_x[1] = vm_self[1]
    /\ \A i \in 2..Len(vm_x) : vm_x[i] = Difference(vm_self, i)

\* C23 as stated: for every integer buffer diff_in_place keeps x[0] and sets
\* x[i] to x[i] - x[i-1], so that its tail is diff(x), and cumsum_in_place
\* then restores the buffer
C23_DiffThenCumsumRestores ==
    /\ vm_pc # "failed"
    /\ vm_pc \in {"diffed", "diffed_in_place", "restored"} =>
           vm_out.panic = ""
    /\ vm_pc = "diffed_in_place" =>
           /\ HoldsDifferences
           /\ Tail(vm_x) = vm_out.val
    /\ vm_pc = "restored" => vm_x = vm_self

\* C23, amended: the same for a non-empty buffer whose differences of
\* neighbours are representable; when one is not, the calls panic under
\* overflow checks, and without them the differences wrap and cumsum_in_place
\* still restores the buffer; diff of the empty buffer panics
C23_DiffThenCumsumRestoresWithoutOverflow ==
    /\ vm_pc = "failed" =>
           overflow_checks /\ ~DifferencesRepresentable(vm_self)
    /\ vm_pc \in {"diffed", "diffed_in_place", "restored"} =>
           (vm_out.panic = "") =
               /\ Len(vm_self) >= 1
               /\ ~overflow_checks \/ DifferencesRepresentable(vm_self)
    /\ vm_pc = "diffed_in_place" =>
           /\ DifferencesRepresentable(vm_self) => HoldsDifferences
           /\ Len(vm_self) >= 1 => Tail(vm_x) = vm_out.val
           /\ \A i \in 2..Len(vm_x) :
                  vm_x[i] = WrapInt(Difference(vm_self, i))
    /\ vm_pc = "restored" => vm_x = vm_self

\* a buffer of three elements with two different non-zero differences has
\* been differenced and restored
C23_Witness ==
    /\ vm_pc = "restored"
    /\ vm_type = "int"
    /\ Len(vm_self) = 3
    /\ DifferencesRepresentable(vm_self)
    /\ Difference(vm_self, 2) # 0
    /\ Difference(vm_self, 3) # Difference(vm_self, 2)
    /\ vm_x = vm_self
    /\ vm_out.val = <<Difference(vm_self, 2), Difference(vm_self, 3)>>

\* the number whose base-256 digits, most significant first, are s
RECURSIVE BigEndianValue(_)
BigEndianValue(s) ==
    IF s = <<>> THEN 0
    ELSE Pow2(ByteBits) * BigEndianValue(SubSeq(s, 1, Len(s) - 1)) + s[Len(s)]

\* C21 as stated: pack_into::<T> aborts when there are more bits than T is
\* wide; otherwise it returns the sum of bit[i] * 2^(len-1-i), which for a
\* whole number of bytes is the big-endian value of packbits of the bits
C21_PackIntoIsBinaryValue ==
    /\ vm_pc = "failed" => Len(vm_self) > BitWidth(vm_type)
    /\ vm_pc = "done" =>
           /\ Len(vm_self) <= BitWidth(vm_type)
           /\ vm_out = BinaryValue(vm_self)
           /\ Len(vm_self) % ByteBits = 0 =>
                  vm_out = BigEndianValue(Packbits(vm_self))

\* the bits fill a signed T and start with a 1
FillsSignBit ==
    /\ Signed(vm_type)
    /\ Len(vm_self) = BitWidth(vm_type)
    /\ vm_self[1] = 1

\* C21, amended: as stated for an unsigned T and for fewer bits than T is
\* wide; when the bits fill a signed T and the first is 1, the result is
\* that sum less 2^len
C21_PackIntoIsBinaryValueUnlessSignBit ==
    /\ vm_pc = "failed" => Len(vm_self) > BitWidth(vm_type)
    /\ vm_pc = "done" =>
           /\ Len(vm_self) <= BitWidth(vm_type)
           /\ ~FillsSignBit =>
                  /\ vm_out = BinaryValue(vm_self)
                  /\ Len(vm_self) % ByteBits = 0 =>
                         vm_out = BigEndianValue(Packbits(vm_self))
           /\ FillsSignBit =>
                  vm_out = BinaryValue(vm_self) - Pow2(Len(vm_self))

\* sixteen bits, those of the bytes 129 and 15, have been packed into a u16
C21_Witness ==
    /\ vm_pc = "done"
    /\ vm_type = "u16"
    /\ vm_self = Unpackbits(<<129, 15>>)
    /\ vm_out = 129 * 256 + 15

\* the values first + k*by (k = 0, 1, ...) below bound, in increasing order,
\* for by > 0
Multiples(first, bound, by) ==
    IF first >= bound THEN <<>>
    ELSE [k \in 1..(((bound - first) + by - 1) \div by) |->
              first + (k - 1) * by]

\* C25 as stated: arange returns for every start, stop and step, and for
\* step > 0 what it returns is the values start + k*step below stop
C25_ArangeTerminatesWithMultiples ==
    /\ <>(ag_pc = "done")
    /\ []((ag_pc = "done" /\ ag_step > 0) =>
              ag_out = Multiples(ag_start, ag_stop, ag_step))

\* ------------------------------------------------------------------------
\* Properties of irfft
\* ------------------------------------------------------------------------
\* the conjugate-mirrored buffer of a half-spectrum h of length M: h in
\* slots [0, M), conj(h[2M-2-k]) in every slot k of [M, 2M-1)
Mirrored(h) ==
    [k \in 1..(2 * Len(h) - 1) |->
        IF k <= Len(h) THEN h[k] ELSE CConj(h[2 * Len(h) - k])]

\* C5: for a half-spectrum of length M >= 2 irfft is not stopped by a
\* panic, and the real buffer it returns has exactly 2 * (M - 1) samples.
C5_IrfftReturnsTwiceMMinusOne ==
    Len(half) >= 2 =>
        /\ ir_pc # "failed"
        /\ ir_pc = "done" => Len(ir_out) = 2 * (Len(half) - 1)

\* irfft has returned for a half-spectrum of three bins
C5_Witness ==
    /\ ir_pc = "done"
    /\ Len(half) = 3
    /\ Len(ir_out) = 4

\* C6: after the copy, conjugate, reverse, re-copy sequence the working
\* buffer has 2M - 1 slots; slots [0, M) hold the half-spectrum, every slot
\* k of [M, 2M-1) holds conj(half[2M-2-k]), so that with N = 2(M-1)
\* X[N-k] = conj(X[k]) for every k in [1, N/2); nothing of what the
\* uninitialised slots held is left.
C6_HermitianReconstruction ==
    ir_pc = "recopied" =>
        LET M == Len(half)
            N == 2 * (M - 1)
        IN  /\ Len(hermitian) = 2 * M - 1
            /\ \A k \in 0..(M - 1) : hermitian[k + 1] = half[k + 1]
            /\ \A k \in M..(2 * M - 2) :
                  hermitian[k + 1] = CConj(half[(2 * M - 2 - k) + 1])
            /\ \A k \in 1..((N \div 2) - 1) :
                  hermitian[(N - k) + 1] = CConj(hermitian[k + 1])
            /\ \A k \in 1..Len(hermitian) :
                  /\ hermitian[k] \notin Garbage
                  /\ CConj(hermitian[k]) \notin Garbage

\* the working buffer of a three-bin half-spectrum whose bins 0 and 1 are
\* not real has been reconstructed
C6_Witness ==
    /\ ir_pc = "recopied"
    /\ Len(half) = 3
    /\ half[1].im # R(0)
    /\ half[2].im # R(0)
    /\ Len(hermitian) = 5

\* C9: sample n of the buffer irfft returns is the real part of the inverse
\* DFT sum, over N, of slots [0, N) of the reconstructed working buffer; the
\* mirrored slot at index N and the zero padding have no part in it.
C9_IrfftIsScaledInverseOfFirstN ==
    (ir_pc = "done" /\ Len(half) >= 2) =>
        LET N == 2 * (Len(half) - 1)
            firstN == SubSeq(Mirrored(half), 1, N)
        IN  /\ Len(ir_out) = N
            /\ \A n \in 0..(N - 1) :
                  ir_out[n + 1] = Over(UnnormalizedDft(firstN, n, "ifft"), N).re

\* irfft has returned for a three-bin half-spectrum whose bin 0 is non-zero,
\* so that the mirrored slot at index N is non-zero as well
C9_Witness ==
    /\ ir_pc = "done"
    /\ Len(half) = 3
    /\ half[1] # Cx(0, 0)
    /\ half[2] # Cx(0, 0)
    /\ Len(hermitian) = 8
    /\ Len(ir_out) = 4

\* C10 as stated: irfft fails for every half-spectrum of length M < 2
C10_FailsBelowTwoBins ==
    Len(half) < 2 => ir_pc # "done"

\* C10 (amended): irfft fails for the empty half-spectrum (M = 0); for
\* M = 1 it is not stopped by a panic and returns an empty buffer.
C10_FailsOnlyOnEmpty ==
    /\ Len(half) = 0 => ir_pc \in {"call", "failed"}
    /\ Len(half) = 1 =>
          /\ ir_pc # "failed"
          /\ ir_pc = "done" => ir_out = <<>>

\* irfft has returned an empty buffer for a one-bin half-spectrum
C10_Witness ==
    /\ ir_pc = "done"
    /\ Len(half) = 1
    /\ ir_out = <<>>
    /\ ir_panic = ""

Init ==
    \/ InitFirwin
    \/ InitFft
    \/ InitIrfft
    \/ InitInterp
    \/ InitBits
    \/ InitElementwise
    \/ InitZip
    \/ InitRoll
    \/ InitUnwrap
    \/ InitPack
    \/ InitTrapz
    \/ InitConvolve
    \/ InitDiff
    \/ InitArange

Next ==
    \/ NextFirwin
    \/ NextFft
    \/ NextIrfft
    \/ CallInterp
    \/ NextBits
    \/ NextElementwise
    \/ NextRoll
    \/ NextUnwrap
    \/ CallPackInto
    \/ CallTrapz
    \/ CallConvolve
    \/ NextDiff
    \/ NextArange

Spec == Init /\ [][Next]_vars

====
